---- MODULE Spec2Model ----
(***************************************************************************)
(* DAG execution engine of amitaisopher/orchestra.                        *)
(*                                                                         *)
(* One workflow partition (pk = WORKFLOW#<id>) of the DynamoDB state      *)
(* table, the Orchestrator Lambda (ddb_workflow/orchestrator_lambda.py:   *)
(* seed and stream fan-out) and the Worker Lambda                          *)
(* (ddb_workflow/worker_lambda.py).                                        *)
(*                                                                         *)
(* Every DynamoDB call is one atomic step and the local variables of a     *)
(* Lambda invocation live in the record of that invocation.  Steps that    *)
(* touch nothing shared are joined to the next DynamoDB call of the same   *)
(* invocation: the delivery of a record or request to its first call, the  *)
(* target invocation of the Worker to the write of its outcome, the        *)
(* asynchronous sends to the Worker to the write before them.              *)
(*                                                                         *)
(* The stream delivers every record at least once, to invocations that     *)
(* may run at the same time.  Only the records of TASK items written as    *)
(* SUCCEEDED or FAILED are kept: the handler drops every other record      *)
(* before any call.  The WebSocket broadcasts read this table and write    *)
(* the connections table only: they have their own specification below,    *)
(* and so have the status recomputation, the Worker and the handling of   *)
(* one stream record of any kind.                                          *)
(***************************************************************************)
EXTENDS Integers, Sequences, FiniteSets, Bags, TLC

(***************************************************************************)
(* Bounds of the model.                                                    *)
(***************************************************************************)
\* incidents of a run, all kinds together: repeated deliveries of stream
\* records, repeated or foreign TaskExecutionRequests, failing target
\* invocations, Orchestrator invocations that stop half-way
MaxIncidents == 2
\* Orchestrator stream invocations in flight at the same time
MaxOrch == 2
\* largest expectedVersion of a foreign TaskExecutionRequest
MaxExpectedVersion == 2
\* broadcasts started in one run
MaxBroadcasts == 2
\* $connect events in one run
MaxConnects == 2

(***************************************************************************)
(* The hard-coded reference DAG  A -> {B1,B2,B3} -> C.                     *)
(***************************************************************************)
Tasks == {"A", "B1", "B2", "B3", "C"}

\* iteration order of graph.items()
TaskOrder == <<"A", "B1", "B2", "B3", "C">>

graph ==
  [A  |-> [dependsOn |-> <<>>,                 dependents |-> <<"B1", "B2", "B3">>],
   B1 |-> [dependsOn |-> <<"A">>,              dependents |-> <<"C">>],
   B2 |-> [dependsOn |-> <<"A">>,              dependents |-> <<"C">>],
   B3 |-> [dependsOn |-> <<"A">>,              dependents |-> <<"C">>],
   C  |-> [dependsOn |-> <<"B1", "B2", "B3">>, dependents |-> <<>>]]

SeqToSet(s) == {s[k] : k \in 1..Len(s)}

\* the edges u -> v of the DAG
Edges == {e \in Tasks \X Tasks : e[2] \in SeqToSet(graph[e[1]].dependents)}

(***************************************************************************)
(* dependsOn / dependents are stored as comma-joined strings.  A string is *)
(* a sequence of symbols: a task id or the separator ",".                  *)
(***************************************************************************)
RECURSIVE Join(_)
Join(ids) ==
  IF Len(ids) = 0 THEN <<>>
  ELSE IF Len(ids) = 1 THEN <<ids[1]>>
  ELSE <<ids[1], ",">> \o Join(Tail(ids))

\* str.split(","): the tokens between separators, empty tokens included
RECURSIVE SplitTokens(_, _)
SplitTokens(csv, cur) ==
  IF Len(csv) = 0 THEN <<cur>>
  ELSE IF Head(csv) = "," THEN <<cur>> \o SplitTokens(Tail(csv), <<>>)
  ELSE SplitTokens(Tail(csv), Append(cur, Head(csv)))

RECURSIVE DropEmpty(_)
DropEmpty(toks) ==
  IF Len(toks) = 0 THEN <<>>
  ELSE IF Len(Head(toks)) = 0 THEN DropEmpty(Tail(toks))
  ELSE <<Head(toks)[1]>> \o DropEmpty(Tail(toks))

\* [x for x in dependents_csv.split(",") if x]
Split(csv) == DropEmpty(SplitTokens(csv, <<>>))

(***************************************************************************)
(* Items of the state table.                                               *)
(***************************************************************************)
\* the value of a key that holds no item
NoItem ==
  [status |-> "NONE", remainingDeps |-> 0, version |-> 0,
   dependsOn |-> <<>>, dependents |-> <<>>]

\* every task is seeded READY
SeedItemAllReady(task_id) ==
  [status        |-> "READY",
   dependsOn     |-> Join(graph[task_id].dependsOn),
   dependents    |-> Join(graph[task_id].dependents),
   remainingDeps |-> IF task_id = "A" THEN 0 ELSE Len(graph[task_id].dependsOn),
   version       |-> 0]

\* remainingDeps counts the dependents
SeedItemCountsDependents(task_id) ==
  [status        |-> IF task_id = "A" THEN "READY" ELSE "PENDING",
   dependsOn     |-> Join(graph[task_id].dependsOn),
   dependents    |-> Join(graph[task_id].dependents),
   remainingDeps |-> IF task_id = "A" THEN 0 ELSE Len(graph[task_id].dependents),
   version       |-> 0]

\* the TASK item _start_from_template builds for task_id
SeedItem(task_id) ==
  [status        |-> IF task_id = "A" THEN "READY" ELSE "PENDING",
   dependsOn     |-> Join(graph[task_id].dependsOn),
   dependents    |-> Join(graph[task_id].dependents),
   remainingDeps |-> IF task_id = "A" THEN 0 ELSE Len(graph[task_id].dependsOn),
   version       |-> 0]

\* items: META first, then one TASK item per node, in graph order
SeedKeys == <<"META">> \o TaskOrder

\* a RUNNING or READY task is looked for first
WorkflowStatusRunningFirst(task_statuses) ==
  IF \E s \in task_statuses : s \in {"RUNNING", "READY"} THEN "RUNNING"
  ELSE IF \E s \in task_statuses : s = "FAILED" THEN "FAILED"
  ELSE IF \A s \in task_statuses : s = "SUCCEEDED" THEN "SUCCEEDED"
  ELSE "PENDING"

\* the status _update_workflow_status derives from the task statuses
WorkflowStatus(task_statuses) ==
  IF \E s \in task_statuses : s = "FAILED" THEN "FAILED"
  ELSE IF \A s \in task_statuses : s = "SUCCEEDED" THEN "SUCCEEDED"
  ELSE IF \E s \in task_statuses : s \in {"RUNNING", "READY"} THEN "RUNNING"
  ELSE IF \E s \in task_statuses : s \in {"PENDING"} THEN "PENDING"
  ELSE "PENDING"

VARIABLES
  tasks,        \* TASK items of the partition: task id -> item (NoItem: absent)
  meta,         \* status of the META#WORKFLOW item ("NONE": absent)
  seed,         \* the seed invocation: [pc, i, new_status]
  stream,       \* change-log records of TASK items written as SUCCEEDED/FAILED
  delivered,    \* stream record -> number of Orchestrator invocations it started
  redelivered,  \* repeated deliveries of stream records so far
  orch,         \* Orchestrator stream invocations in flight (a bag)
  stranded,     \* tasks whose promotion was pending in an invocation that stopped
  stops,        \* Orchestrator invocations that stopped half-way
  inbox,        \* TaskExecutionRequests sent to the Worker, not yet handled
  requests,     \* every TaskExecutionRequest sent so far
  extraReqs,    \* repeated or foreign requests handled so far
  workers,      \* Worker invocations in flight (claim accepted)
  rejected,     \* Worker invocations that returned ok = false after a rejected claim
  failures,     \* target invocations that failed so far
  claims,       \* task id -> accepted READY->RUNNING claims
  invoked,      \* task id -> invocations of the target Lambda
  zeroDecs,     \* task id -> accepted decrements that returned remainingDeps = 0
  promotions,   \* task id -> accepted PENDING->READY promotions
  emitted,      \* task id -> TaskExecutionRequests the Orchestrator sent
  connections,  \* items of the connections table: connectionId -> item
  connects,     \* $connect events so far (the clock of the timestamps)
  bcast,        \* the broadcasts started so far, in flight or done
  response,     \* what the WebSocket handler returned last ([statusCode])
  skipped       \* kind -> broadcast calls that ended before their scan returned

\* the workflow state table and the two reactors
evars == <<tasks, meta, seed, stream, delivered, redelivered, orch, stranded,
           stops, inbox,
           requests, extraReqs, workers, rejected, failures, claims, invoked,
           zeroDecs, promotions, emitted>>

\* the connections table and the broadcasts
bvars == <<connections, connects, bcast, response, skipped>>

vars == <<evars, bvars>>

\* how a broadcast call ends before its scan returns: the WebSocket URL is
\* not configured, or connections_table.scan() raises
SkipKinds == {"no_config", "scan_error"}

\* no connection is registered, nothing was broadcast
NoBroadcast ==
  /\ connections = [c \in {} |-> 0]
  /\ connects = 0
  /\ bcast = {}
  /\ response = [statusCode |-> 0]
  /\ skipped = [kind \in SkipKinds |-> 0]

Zero == [t \in Tasks |-> 0]

Init ==
  /\ tasks = [t \in Tasks |-> NoItem]
  /\ meta = "NONE"
  /\ seed = [pc |-> "put", i |-> 1, new_status |-> "SKIP"]
  /\ stream = {}
  /\ delivered = [r \in {} |-> 0]
  /\ redelivered = 0
  /\ orch = EmptyBag
  /\ stranded = {}
  /\ stops = 0
  /\ inbox = {}
  /\ requests = {}
  /\ extraReqs = 0
  /\ workers = {}
  /\ rejected = 0
  /\ failures = 0
  /\ claims = Zero
  /\ invoked = Zero
  /\ zeroDecs = Zero
  /\ promotions = Zero
  /\ emitted = Zero
  /\ NoBroadcast

\* the workflow id of the start request
workflow_id == "wf1"

\* deadlineMs=15000 of every TaskExecutionRequest
deadlineMs == 15000

\* the incidents so far
Incidents == redelivered + extraReqs + failures + stops

\* statuses of the TASK items a query of the partition returns
QueryStatuses == {tasks[t].status : t \in {u \in Tasks : tasks[u] # NoItem}}

\* _invoke_worker: an asynchronous (Event) invocation of the Worker
TaskExecutionRequest(task_id, expected_version) ==
  [workflowId |-> workflow_id, taskId |-> task_id,
   expectedVersion |-> expected_version, deadlineMs |-> deadlineMs,
   correlationId |-> workflow_id]

(***************************************************************************)
(* Seed: handler(mode = "start") -> _start_from_template.                  *)
(***************************************************************************)
\* batch.put_item(Item=it): an unconditional put of one item
SeedPut ==
  /\ seed.pc = "put"
  /\ LET key == SeedKeys[seed.i] IN
       IF key = "META"
         THEN /\ meta' = "PENDING"
              /\ UNCHANGED tasks
         ELSE /\ tasks' = [tasks EXCEPT ![key] = SeedItem(key)]
              /\ UNCHANGED meta
  /\ seed' = IF seed.i < Len(SeedKeys)
               THEN [seed EXCEPT !.i = @ + 1]
               ELSE [seed EXCEPT !.pc = "invoke"]
  /\ UNCHANGED <<bvars, stream, delivered, redelivered, orch, stranded, stops, inbox, requests,
                 extraReqs, workers, rejected, failures, claims, invoked,
                 zeroDecs, promotions, emitted>>

\* a request sent to the Worker: k tells apart requests sent for one task
Sent(req, k) ==
  [taskId |-> req.taskId, expectedVersion |-> req.expectedVersion, k |-> k]

\* a request is sent for every seeded task
SeedRequestsAllTasks == {TaskExecutionRequest(t, 0) : t \in Tasks}

\* the requests the seed sends: "Trigger A via worker"
SeedRequests == {TaskExecutionRequest("A", 0)}

\* _invoke_worker for the root
SeedInvoke ==
  /\ seed.pc = "invoke"
  /\ inbox' = inbox \cup {Sent(req, emitted[req.taskId] + 1) : req \in SeedRequests}
  /\ requests' = requests \cup SeedRequests
  /\ emitted' = [t \in Tasks |->
       emitted[t] + Cardinality({req \in SeedRequests : req.taskId = t})]
  /\ seed' = [seed EXCEPT !.pc = "query"]
  /\ UNCHANGED <<bvars, tasks, meta, stream, delivered, redelivered, orch, stranded, stops,
                 extraReqs, workers, rejected, failures, claims, invoked,
                 zeroDecs, promotions>>

\* _update_workflow_status, the query: "SKIP" when no TASK item is found
UpdateQuery ==
  IF QueryStatuses = {} THEN "SKIP" ELSE WorkflowStatus(QueryStatuses)

\* the write without its condition: an absent META item is created
MetaWriteUpsert(m, new_status) ==
  IF new_status = "SKIP" THEN m ELSE new_status

\* _update_workflow_status, the write: SET status WHERE attribute_exists(pk)
MetaWrite(m, new_status) ==
  IF new_status = "SKIP" \/ m = "NONE" THEN m ELSE new_status

\* the query of the _update_workflow_status that ends the seed
SeedQuery ==
  /\ seed.pc = "query"
  /\ seed' = [seed EXCEPT !.pc = "write", !.new_status = UpdateQuery]
  /\ UNCHANGED <<bvars, tasks, meta, stream, delivered, redelivered, orch, stranded, stops, inbox,
                 requests, extraReqs, workers, rejected, failures, claims,
                 invoked, zeroDecs, promotions, emitted>>

\* ... and its write
SeedWrite ==
  /\ seed.pc = "write"
  /\ meta' = MetaWrite(meta, seed.new_status)
  /\ seed' = [seed EXCEPT !.pc = "done"]
  /\ UNCHANGED <<bvars, tasks, stream, delivered, redelivered, orch, stranded, stops, inbox,
                 requests, extraReqs, workers, rejected, failures, claims,
                 invoked, zeroDecs, promotions, emitted>>

(***************************************************************************)
(* Worker: worker_lambda.handler.  An invocation whose claim is rejected   *)
(* returns in the step of the claim; one whose claim is accepted is in     *)
(* flight until the step that invokes the target and writes the outcome.   *)
(***************************************************************************)
\* the claim tests the version only
ClaimConditionVersionOnly(item, expected_version) ==
  item.version = expected_version

\* the claim tests the status only
ClaimConditionStatusOnly(item, expected_version) ==
  item.status = "READY"

\* ConditionExpression "#s = :ready AND version = :ver"
ClaimCondition(item, expected_version) ==
  item.status = "READY" /\ item.version = expected_version

\* UpdateExpression "SET #s = :running, version = version + :one"
ClaimUpdate(item) ==
  [item EXCEPT !.status = "RUNNING", !.version = @ + 1]

\* the Worker handles one request: the claim, and the return when rejected
HandleRequest(task_id, expected_version) ==
  LET item == tasks[task_id] IN
  /\ IF item # NoItem /\ ClaimCondition(item, expected_version)
       THEN /\ tasks' = [tasks EXCEPT ![task_id] = ClaimUpdate(item)]
            /\ claims' = [claims EXCEPT ![task_id] = @ + 1]
            /\ workers' = workers \cup {[taskId |-> task_id, n |-> claims[task_id] + 1]}
            /\ UNCHANGED rejected
       ELSE /\ rejected' = rejected + 1
            /\ UNCHANGED <<tasks, claims, workers>>
  /\ UNCHANGED <<bvars, meta, seed, stream, delivered, redelivered, orch, stranded, stops, requests,
                 failures, emitted, invoked, zeroDecs, promotions>>

\* the Worker is invoked with a request the Orchestrator sent
WorkerClaim(sent) ==
  /\ sent \in inbox
  /\ inbox' = inbox \ {sent}
  /\ HandleRequest(sent.taskId, sent.expectedVersion)
  /\ UNCHANGED extraReqs

\* the Worker is invoked once more for a task, with any expectedVersion
WorkerClaimExtra(task_id, expected_version) ==
  /\ \E req \in requests : req.taskId = task_id
  /\ Incidents < MaxIncidents
  /\ extraReqs' = extraReqs + 1
  /\ HandleRequest(task_id, expected_version)
  /\ UNCHANGED inbox

\* UpdateExpression "SET #s = :succeeded, ..." / "SET #s = :failed, ..."
FinalizeUpdate(item, ok) ==
  [item EXCEPT !.status = IF ok THEN "SUCCEEDED" ELSE "FAILED"]

\* the change-log record of a write of a TASK item
StreamRecord(task_id, old, new) ==
  [eventName |-> "MODIFY", type |-> "TASK", taskId |-> task_id,
   status_old |-> old.status, NewImage |-> new]

\* the target is invoked and the outcome written (no condition)
Finalize(w, ok) ==
  /\ w \in workers
  /\ invoked' = [invoked EXCEPT ![w.taskId] = @ + 1]
  /\ LET old == tasks[w.taskId]
         new == FinalizeUpdate(old, ok)
         rec == StreamRecord(w.taskId, old, new)
     IN
     /\ tasks' = [tasks EXCEPT ![w.taskId] = new]
     /\ stream' = stream \cup {rec}
     /\ delivered' = IF rec \in stream THEN delivered
                     ELSE [r \in stream \cup {rec} |->
                             IF r \in stream THEN delivered[r] ELSE 0]
  /\ workers' = workers \ {w}
  /\ UNCHANGED <<bvars, meta, seed, redelivered, orch, stranded, stops, inbox, requests, extraReqs,
                 rejected, claims, zeroDecs, promotions, emitted>>

\* lambda_client.invoke(target) returns a JSON payload
WorkerSucceed(w) ==
  /\ Finalize(w, TRUE)
  /\ UNCHANGED failures

\* the invocation raises, or its payload is not JSON
WorkerFail(w) ==
  /\ Incidents < MaxIncidents
  /\ failures' = failures + 1
  /\ Finalize(w, FALSE)

(***************************************************************************)
(* Orchestrator, stream mode: handler(event with Records).  An invocation  *)
(* is [rec, pc, i, dependents, tasks_to_execute, new_status]; it           *)
(* handles one record (the records of a batch are handled one after the    *)
(* other).                                                                 *)
(***************************************************************************)
\* the old status is not looked at
FanOutAnyOld(rec) ==
  ~ (rec.type # "TASK" \/ rec.NewImage.status # "SUCCEEDED")

\* the record passes "typ != TASK or status_new != SUCCEEDED or status_old == SUCCEEDED"
FanOut(rec) ==
  ~ (rec.type # "TASK" \/ rec.NewImage.status # "SUCCEEDED"
       \/ rec.status_old = "SUCCEEDED")

\* a record of a FAILED task is dropped
StatusOnlySucceeded(rec) ==
  /\ ~ FanOut(rec)
  /\ rec.type = "TASK"
  /\ rec.NewImage.status \in {"SUCCEEDED"}
  /\ rec.status_old # rec.NewImage.status

\* the record only refreshes the workflow status
StatusOnly(rec) ==
  /\ ~ FanOut(rec)
  /\ rec.type = "TASK"
  /\ rec.NewImage.status \in {"SUCCEEDED", "FAILED"}
  /\ rec.status_old # rec.NewImage.status

\* the stream hands a record to an invocation, which queries the task statuses
OrchStart(rec) ==
  /\ rec \in stream
  /\ rec.eventName \in {"MODIFY", "INSERT"}
  /\ FanOut(rec) \/ StatusOnly(rec)
  /\ BagCardinality(orch) < MaxOrch
  /\ delivered[rec] = 0 \/ Incidents < MaxIncidents
  /\ redelivered' = IF delivered[rec] = 0 THEN redelivered ELSE redelivered + 1
  /\ delivered' = [delivered EXCEPT ![rec] = @ + 1]
  /\ orch' = orch (+) SetToBag(
       {[rec |-> rec, pc |-> "write", i |-> 0, dependents |-> <<>>,
         tasks_to_execute |-> <<>>, new_status |-> UpdateQuery]})
  /\ UNCHANGED <<bvars, tasks, meta, seed, stream, stranded, stops, inbox, requests, extraReqs,
                 workers, rejected, failures, claims, invoked, zeroDecs,
                 promotions, emitted>>

\* the invocation o goes on as o2, or ends
Continue(o, o2) ==
  IF o2.pc = "done" THEN orch (-) SetToBag({o})
  ELSE (orch (-) SetToBag({o})) (+) SetToBag({o2})

\* the invocations in flight
Running == BagToSet(orch)

\* the first _update_workflow_status writes; then the dependents are parsed
OrchWrite(o) ==
  /\ o \in Running /\ o.pc = "write"
  /\ meta' = MetaWrite(meta, o.new_status)
  /\ LET dependents_csv == o.rec.NewImage.dependents
         dependents == IF Len(dependents_csv) = 0 THEN <<>>
                       ELSE Split(dependents_csv)
     IN orch' = Continue(o,
          IF FanOut(o.rec) /\ Len(dependents) > 0
            THEN [o EXCEPT !.pc = "decrement", !.i = 1, !.dependents = dependents,
                           !.new_status = "SKIP"]
            ELSE [o EXCEPT !.pc = "done"])
  /\ UNCHANGED <<bvars, tasks, seed, stream, delivered, redelivered, stranded, stops, inbox, requests,
                 extraReqs, workers, rejected, failures, claims, invoked,
                 zeroDecs, promotions, emitted>>

\* the loop ends after its first pass
AdvanceBreaks(o) ==
  IF Len(o.tasks_to_execute) > 0
    THEN [o EXCEPT !.pc = "query"]
    ELSE [o EXCEPT !.pc = "done"]

\* the end of one pass of "for dep in dependents"
Advance(o) ==
  IF o.i < Len(o.dependents)
    THEN [o EXCEPT !.pc = "decrement", !.i = @ + 1]
    ELSE IF Len(o.tasks_to_execute) > 0
      THEN [o EXCEPT !.pc = "query"]
      ELSE [o EXCEPT !.pc = "done"]

\* the decrement without its condition
DecrementConditionNone(item) == TRUE

\* ConditionExpression "remainingDeps > :zero"
DecrementCondition(item) == item.remainingDeps > 0

\* UpdateExpression "SET remainingDeps = remainingDeps - :one"
DecrementUpdate(item) == [item EXCEPT !.remainingDeps = @ - 1]

\* the promotion is tried one decrement too early
BecameReadyEarly(new_vals) == new_vals.remainingDeps <= 1

\* the promotion is never tried
BecameReadyNever(new_vals) == new_vals.remainingDeps < 0

\* "if new_remaining == 0"
BecameReady(new_vals) == new_vals.remainingDeps = 0

\* ConditionExpression "#s = :pending"
PromoteCondition(item) == item.status = "PENDING"

\* the protocol without its tests
ProtocolTestDropped(step, item) == TRUE

\* the three tests that guard the dependency-decrement protocol of one dep
ProtocolTest(step, item) ==
  CASE step = "decrement" -> DecrementCondition(item)
    [] step = "ready"     -> BecameReady(item)
    [] step = "promote"   -> PromoteCondition(item)

\* the promotion leaves the version as it is
PromoteUpdateNoVersion(item) == [item EXCEPT !.status = "READY"]

\* UpdateExpression "SET #s = :ready, version = version + :one"
PromoteUpdate(item) == [item EXCEPT !.status = "READY", !.version = @ + 1]

\* the request is collected twice
CollectTwice(tasks_to_execute, req) == Append(Append(tasks_to_execute, req), req)

\* tasks_to_execute.append(...)
Collect(tasks_to_execute, req) == Append(tasks_to_execute, req)

\* the decrement of dep's remainingDeps
OrchDecrement(o) ==
  /\ o \in Running /\ o.pc = "decrement"
  /\ LET dep  == o.dependents[o.i]
         item == tasks[dep]
         new_vals == DecrementUpdate(item)
     IN
     IF item # NoItem /\ ProtocolTest("decrement", item)
       THEN /\ tasks' = [tasks EXCEPT ![dep] = new_vals]
            /\ zeroDecs' = IF new_vals.remainingDeps = 0
                             THEN [zeroDecs EXCEPT ![dep] = @ + 1]
                             ELSE zeroDecs
            /\ orch' = IF ProtocolTest("ready", new_vals)
                         THEN Continue(o, [o EXCEPT !.pc = "promote"])
                         ELSE Continue(o, Advance(o))
       ELSE /\ orch' = Continue(o, Advance(o))
            /\ UNCHANGED <<tasks, zeroDecs>>
  /\ UNCHANGED <<bvars, meta, seed, stream, delivered, redelivered, stranded, stops, inbox, requests,
                 extraReqs, workers, rejected, failures, emitted, claims,
                 invoked, promotions>>

\* the promotion of dep, and the request collected for it
OrchPromote(o) ==
  /\ o \in Running /\ o.pc = "promote"
  /\ LET dep  == o.dependents[o.i]
         item == tasks[dep]
         new_vals_ready == PromoteUpdate(item)
         req == TaskExecutionRequest(dep, new_vals_ready.version)
     IN
     IF item # NoItem /\ ProtocolTest("promote", item)
       THEN /\ tasks' = [tasks EXCEPT ![dep] = new_vals_ready]
            /\ promotions' = [promotions EXCEPT ![dep] = @ + 1]
            /\ orch' = Continue(o,
                 Advance([o EXCEPT !.tasks_to_execute = Collect(@, req)]))
       ELSE /\ orch' = Continue(o, Advance(o))
            /\ UNCHANGED <<tasks, promotions>>
  /\ UNCHANGED <<bvars, meta, seed, stream, delivered, redelivered, stranded, stops, inbox, requests,
                 extraReqs, workers, rejected, failures, emitted, claims,
                 invoked, zeroDecs>>

\* "if tasks_to_execute": the second _update_workflow_status queries
OrchQuery(o) ==
  /\ o \in Running /\ o.pc = "query"
  /\ orch' = Continue(o, [o EXCEPT !.pc = "invoke", !.new_status = UpdateQuery])
  /\ UNCHANGED <<bvars, tasks, meta, seed, stream, delivered, redelivered, stranded, stops, inbox,
                 requests, extraReqs, workers, rejected, failures, claims,
                 invoked, zeroDecs, promotions, emitted>>

\* the requests "for task_req in tasks_to_execute" sends
ToExecute(o) == SeqToSet(o.tasks_to_execute)

\* ... and writes; then every collected request is sent to the Worker
OrchInvoke(o) ==
  /\ o \in Running /\ o.pc = "invoke"
  /\ meta' = MetaWrite(meta, o.new_status)
  /\ inbox' = inbox \cup {Sent(req, emitted[req.taskId] + 1) : req \in ToExecute(o)}
  /\ requests' = requests \cup ToExecute(o)
  /\ emitted' = [t \in Tasks |->
       emitted[t] + Cardinality({k \in 1..Len(o.tasks_to_execute) :
                                   o.tasks_to_execute[k].taskId = t})]
  /\ orch' = Continue(o, [o EXCEPT !.pc = "done"])
  /\ UNCHANGED <<bvars, tasks, seed, stream, delivered, redelivered, stranded, stops, extraReqs,
                 workers, rejected, failures, claims, invoked, zeroDecs,
                 promotions>>

\* the invocation stops (time-out, or an exception that is not caught)
OrchStop(o) ==
  /\ o \in Running
  /\ Incidents < MaxIncidents
  /\ stops' = stops + 1
  /\ stranded' = IF o.pc = "promote" THEN stranded \cup {o.dependents[o.i]}
                 ELSE stranded
  /\ orch' = orch (-) SetToBag({o})
  /\ UNCHANGED <<bvars, tasks, meta, seed, stream, delivered, redelivered, inbox,
                 requests, extraReqs, workers, rejected, failures, claims,
                 invoked, zeroDecs, promotions, emitted>>

\* "for dep in dependents" run in one piece on the items in store
RECURSIVE FanOutLoop(_, _, _)
FanOutLoop(store, dependents, tasks_to_execute) ==
  IF Len(dependents) = 0
    THEN [tasks |-> store, tasks_to_execute |-> tasks_to_execute]
    ELSE
      LET dep  == Head(dependents)
          item == store[dep]
          new_vals == DecrementUpdate(item)
          new_vals_ready == PromoteUpdate(new_vals)
      IN
      IF ~ (item # NoItem /\ ProtocolTest("decrement", item))
        THEN FanOutLoop(store, Tail(dependents), tasks_to_execute)
      ELSE IF ~ (ProtocolTest("ready", new_vals) /\ ProtocolTest("promote", new_vals))
        THEN FanOutLoop([store EXCEPT ![dep] = new_vals], Tail(dependents),
                        tasks_to_execute)
      ELSE FanOutLoop([store EXCEPT ![dep] = new_vals_ready], Tail(dependents),
                      Collect(tasks_to_execute,
                              TaskExecutionRequest(dep, new_vals_ready.version)))

\* one stream invocation for rec, alone, on the items in store: the items it
\* leaves and the requests it sends
React(store, rec) ==
  IF /\ rec.eventName \in {"MODIFY", "INSERT"}
     /\ FanOut(rec)
     /\ Len(rec.NewImage.dependents) > 0
    THEN FanOutLoop(store, Split(rec.NewImage.dependents), <<>>)
    ELSE [tasks |-> store, tasks_to_execute |-> <<>>]

Next ==
  \/ SeedPut
  \/ SeedInvoke
  \/ SeedQuery
  \/ SeedWrite
  \/ \E sent \in inbox : WorkerClaim(sent)
  \/ \E task_id \in Tasks, v \in 0..MaxExpectedVersion : WorkerClaimExtra(task_id, v)
  \/ \E w \in workers : WorkerSucceed(w)
  \/ \E w \in workers : WorkerFail(w)
  \/ \E rec \in stream : OrchStart(rec)
  \/ \E o \in Running : OrchWrite(o)
  \/ \E o \in Running : OrchDecrement(o)
  \/ \E o \in Running : OrchPromote(o)
  \/ \E o \in Running : OrchQuery(o)
  \/ \E o \in Running : OrchInvoke(o)
  \/ \E o \in Running : OrchStop(o)

Spec == Init /\ [][Next]_vars

(***************************************************************************)
(* Runs in which every target invocation succeeds, no invocation stops and *)
(* the Worker gets the requests the Orchestrator sent, once each; records  *)
(* may still be delivered again.  Every Lambda invocation runs on, every   *)
(* request and every record is delivered in the end.                       *)
(***************************************************************************)
LiveNext ==
  \/ SeedPut
  \/ SeedInvoke
  \/ SeedQuery
  \/ SeedWrite
  \/ \E sent \in inbox : WorkerClaim(sent)
  \/ \E w \in workers : WorkerSucceed(w)
  \/ \E rec \in stream : OrchStart(rec)
  \/ \E o \in Running : OrchWrite(o)
  \/ \E o \in Running : OrchDecrement(o)
  \/ \E o \in Running : OrchPromote(o)
  \/ \E o \in Running : OrchQuery(o)
  \/ \E o \in Running : OrchInvoke(o)

LiveSpec == Init /\ [][LiveNext]_vars /\ WF_vars(LiveNext)

(***************************************************************************)
(* The runs of LiveSpec, and those in which targets fail.                  *)
(***************************************************************************)
FailNext ==
  \/ LiveNext
  \/ \E w \in workers : WorkerFail(w)

FailSpec == Init /\ [][FailNext]_vars /\ WF_vars(FailNext)

(***************************************************************************)
(* The runs of Spec in which the stream delivers every record once.  The   *)
(* Worker's write of SUCCEEDED may raise after it was applied: the write   *)
(* sits in the try block, and "except Exception" writes FAILED after it.   *)
(***************************************************************************)
\* an invocation that has not written yet
Claimed == {w \in workers : DOMAIN w = {"taskId", "n"}}

\* the target returns, update_item(SET #s = :succeeded ...) is applied and raises
WorkerSucceedRaises(w) ==
  /\ w \in Claimed
  /\ Incidents < MaxIncidents
  /\ failures' = failures + 1
  /\ LET old == tasks[w.taskId]
         new == FinalizeUpdate(old, TRUE)
         rec == StreamRecord(w.taskId, old, new)
     IN
     /\ tasks' = [tasks EXCEPT ![w.taskId] = new]
     /\ stream' = stream \cup {rec}
     /\ delivered' = IF rec \in stream THEN delivered
                     ELSE [r \in stream \cup {rec} |->
                             IF r \in stream THEN delivered[r] ELSE 0]
  /\ workers' = (workers \ {w}) \cup {[taskId |-> w.taskId, n |-> w.n, pc |-> "except"]}
  /\ UNCHANGED <<bvars, meta, seed, redelivered, orch, stranded, stops, inbox, requests,
                 extraReqs, rejected, claims, invoked, zeroDecs, promotions, emitted>>

\* ... and the Worker writes FAILED
WorkerExceptWrite(w) ==
  /\ w \in workers \ Claimed
  /\ Finalize(w, FALSE)
  /\ UNCHANGED failures

OnceNext ==
  \/ SeedPut
  \/ SeedInvoke
  \/ SeedQuery
  \/ SeedWrite
  \/ \E sent \in inbox : WorkerClaim(sent)
  \/ \E task_id \in Tasks, v \in 0..MaxExpectedVersion : WorkerClaimExtra(task_id, v)
  \/ \E w \in Claimed : WorkerSucceed(w)
  \/ \E w \in Claimed : WorkerFail(w)
  \/ \E w \in workers : WorkerSucceedRaises(w)
  \/ \E w \in workers : WorkerExceptWrite(w)
  \/ \E rec \in stream : delivered[rec] = 0 /\ OrchStart(rec)
  \/ \E o \in Running : OrchWrite(o)
  \/ \E o \in Running : OrchDecrement(o)
  \/ \E o \in Running : OrchPromote(o)
  \/ \E o \in Running : OrchQuery(o)
  \/ \E o \in Running : OrchInvoke(o)
  \/ \E o \in Running : OrchStop(o)

OnceSpec == Init /\ [][OnceNext]_vars

(***************************************************************************)
(* The runs of Spec, and those in which a Worker invocation stops between  *)
(* its claim and the write of the outcome (it is killed, or times out      *)
(* while the target runs): nothing is written, the task is left RUNNING.   *)
(***************************************************************************)
\* the Worker invocation w stops; it counts with the invocations that stopped
WorkerStop(w) ==
  /\ w \in workers
  /\ Incidents < MaxIncidents
  /\ stops' = stops + 1
  /\ workers' = workers \ {w}
  /\ UNCHANGED <<bvars, tasks, meta, seed, stream, delivered, redelivered, orch,
                 stranded, inbox, requests, extraReqs, rejected, failures,
                 claims, invoked, zeroDecs, promotions, emitted>>

StuckNext ==
  \/ Next
  \/ \E w \in workers : WorkerStop(w)

StuckSpec == Init /\ [][StuckNext]_vars

(***************************************************************************)
(* _update_workflow_status alone, on any partition: each key holds no item *)
(* or a TASK item of any status, META holds any status.                    *)
(***************************************************************************)
\* Status = Literal[...]
Status == {"PENDING", "READY", "RUNNING", "SUCCEEDED", "FAILED", "CANCELED"}

StatusInit ==
  /\ \E f \in [Tasks -> Status \cup {"NONE"}] :
       tasks = [t \in Tasks |->
                  IF f[t] = "NONE" THEN NoItem
                  ELSE [SeedItem(t) EXCEPT !.status = f[t]]]
  /\ meta \in Status \ {"CANCELED", "READY"}
  /\ seed = [pc |-> "query", i |-> Len(SeedKeys), new_status |-> "SKIP"]
  /\ stream = {}
  /\ delivered = [r \in {} |-> 0]
  /\ redelivered = 0
  /\ orch = EmptyBag
  /\ stranded = {}
  /\ stops = 0
  /\ inbox = {}
  /\ requests = {}
  /\ extraReqs = 0
  /\ workers = {}
  /\ rejected = 0
  /\ failures = 0
  /\ claims = Zero
  /\ invoked = Zero
  /\ zeroDecs = Zero
  /\ promotions = Zero
  /\ emitted = Zero
  /\ NoBroadcast

StatusNext ==
  \/ SeedQuery
  \/ SeedWrite

StatusSpec == StatusInit /\ [][StatusNext]_vars

(***************************************************************************)
(* The Worker alone, step by step, on one task of a seeded partition.  The *)
(* task is in any state the engine brings it to; two requests for it are   *)
(* waiting, with any expectedVersion.  An invocation in flight is          *)
(* [taskId, n] after its claim, then [taskId, n, pc, resp, duration_ms,    *)
(* writes, ok]; it stays in workers after its return.                      *)
(***************************************************************************)
\* what lambda_client.invoke(RequestResponse) gives back: a JSON payload of
\* the target, the JSON error payload of a target that failed (FunctionError
\* is set in the response), a payload that is not JSON, or an exception
Responses == {"json", "function_error", "not_json", "raised"}

\* the time the target takes, in ms
Durations == {1000, 20000}

\* the states of the TASK item of task_id in a workflow seeded once
ItemStates(task_id) ==
  LET ready == [SeedItem(task_id) EXCEPT
                  !.status = "READY", !.remainingDeps = 0,
                  !.version = IF task_id = "A" THEN 0 ELSE 1]
  IN {SeedItem(task_id), ready}
       \cup {[ready EXCEPT !.status = st, !.version = @ + 1] :
               st \in {"RUNNING", "SUCCEEDED", "FAILED"}}

WorkerInit ==
  /\ \E t \in Tasks, ev1, ev2 \in 0..MaxExpectedVersion :
       /\ \E item \in ItemStates(t) :
            tasks = [u \in Tasks |-> IF u = t THEN item ELSE SeedItem(u)]
       /\ requests = {TaskExecutionRequest(t, ev1), TaskExecutionRequest(t, ev2)}
       /\ inbox = {Sent(TaskExecutionRequest(t, ev1), 1),
                   Sent(TaskExecutionRequest(t, ev2), 2)}
       /\ emitted = [u \in Tasks |-> IF u = t THEN 2 ELSE 0]
  /\ meta = "RUNNING"
  /\ seed = [pc |-> "done", i |-> Len(SeedKeys), new_status |-> "RUNNING"]
  /\ stream = {}
  /\ delivered = [r \in {} |-> 0]
  /\ redelivered = 0
  /\ orch = EmptyBag
  /\ stranded = {}
  /\ stops = 0
  /\ extraReqs = 0
  /\ workers = {}
  /\ rejected = 0
  /\ failures = 0
  /\ claims = Zero
  /\ invoked = Zero
  /\ zeroDecs = Zero
  /\ promotions = Zero
  /\ NoBroadcast

\* lambda_client.invoke(target) and json.loads of its payload
WorkerInvokeTarget(w, resp, duration_ms) ==
  /\ w \in workers /\ DOMAIN w = {"taskId", "n"}
  /\ workers' = (workers \ {w}) \cup
       {[taskId |-> w.taskId, n |-> w.n, pc |-> "write", resp |-> resp,
         duration_ms |-> duration_ms, writes |-> <<>>, ok |-> FALSE]}
  /\ invoked' = [invoked EXCEPT ![w.taskId] = @ + 1]
  /\ UNCHANGED <<bvars, tasks, meta, seed, stream, delivered, redelivered, orch, stranded,
                 stops, inbox, requests, extraReqs, rejected, failures, claims,
                 zeroDecs, promotions, emitted>>

\* the try block runs to its end unless invoke or json.loads raises
Raises(resp) == resp \in {"raised", "not_json"}

\* the write of the outcome, and the return
WorkerFinalize(w) ==
  /\ w \in workers /\ DOMAIN w # {"taskId", "n"} /\ w.pc = "write"
  /\ LET ok  == ~ Raises(w.resp)
         old == tasks[w.taskId]
         new == FinalizeUpdate(old, ok)
         rec == StreamRecord(w.taskId, old, new)
     IN
     /\ tasks' = [tasks EXCEPT ![w.taskId] = new]
     /\ stream' = stream \cup {rec}
     /\ delivered' = IF rec \in stream THEN delivered
                     ELSE [r \in stream \cup {rec} |->
                             IF r \in stream THEN delivered[r] ELSE 0]
     /\ workers' = (workers \ {w}) \cup
          {[w EXCEPT !.pc = "returned", !.ok = ok,
                     !.writes = Append(@, new.status)]}
     /\ failures' = IF ok THEN failures ELSE failures + 1
  /\ UNCHANGED <<bvars, meta, seed, redelivered, orch, stranded, stops, inbox, requests,
                 extraReqs, rejected, claims, invoked, zeroDecs, promotions,
                 emitted>>

WorkerNext ==
  \/ \E sent \in inbox : WorkerClaim(sent)
  \/ \E w \in workers, resp \in Responses, duration_ms \in Durations :
       WorkerInvokeTarget(w, resp, duration_ms)
  \/ \E w \in workers : WorkerFinalize(w)

WorkerSpec == WorkerInit /\ [][WorkerNext]_vars

(***************************************************************************)
(* The same, with a write of SUCCEEDED that raises (a time-out of the      *)
(* call, a throttled table): the update_item sits in the try block, so     *)
(* "except Exception" writes FAILED after it.  The write that raised was   *)
(* applied to the item or not.                                             *)
(***************************************************************************)
\* update_item(SET #s = :succeeded ...) raises
WorkerFinalizeRaises(w, applied) ==
  /\ w \in workers /\ DOMAIN w # {"taskId", "n"} /\ w.pc = "write"
  /\ ~ Raises(w.resp)
  /\ LET old == tasks[w.taskId]
         new == FinalizeUpdate(old, TRUE)
         rec == StreamRecord(w.taskId, old, new)
     IN
     IF applied
       THEN /\ tasks' = [tasks EXCEPT ![w.taskId] = new]
            /\ stream' = stream \cup {rec}
            /\ delivered' = IF rec \in stream THEN delivered
                            ELSE [r \in stream \cup {rec} |->
                                    IF r \in stream THEN delivered[r] ELSE 0]
            /\ workers' = (workers \ {w}) \cup
                 {[w EXCEPT !.pc = "except", !.writes = Append(@, new.status)]}
       ELSE /\ workers' = (workers \ {w}) \cup {[w EXCEPT !.pc = "except"]}
            /\ UNCHANGED <<tasks, stream, delivered>>
  /\ UNCHANGED <<bvars, meta, seed, redelivered, orch, stranded, stops, inbox, requests,
                 extraReqs, rejected, failures, claims, invoked, zeroDecs,
                 promotions, emitted>>

\* "except Exception": update_item(SET #s = :failed ...), return ok = False
WorkerExcept(w) ==
  /\ w \in workers /\ DOMAIN w # {"taskId", "n"} /\ w.pc = "except"
  /\ LET old == tasks[w.taskId]
         new == FinalizeUpdate(old, FALSE)
         rec == StreamRecord(w.taskId, old, new)
     IN
     /\ tasks' = [tasks EXCEPT ![w.taskId] = new]
     /\ stream' = stream \cup {rec}
     /\ delivered' = IF rec \in stream THEN delivered
                     ELSE [r \in stream \cup {rec} |->
                             IF r \in stream THEN delivered[r] ELSE 0]
     /\ workers' = (workers \ {w}) \cup
          {[w EXCEPT !.pc = "returned", !.ok = FALSE,
                     !.writes = Append(@, new.status)]}
  /\ failures' = failures + 1
  /\ UNCHANGED <<bvars, meta, seed, redelivered, orch, stranded, stops, inbox, requests,
                 extraReqs, rejected, claims, invoked, zeroDecs, promotions,
                 emitted>>

WorkerFaultNext ==
  \/ WorkerNext
  \/ \E w \in workers, applied \in BOOLEAN : WorkerFinalizeRaises(w, applied)
  \/ \E w \in workers : WorkerExcept(w)

WorkerFaultSpec == WorkerInit /\ [][WorkerFaultNext]_vars

(***************************************************************************)
(* The broadcaster of the Orchestrator (_broadcast_workflow_update) and    *)
(* the connections table it shares with the WebSocket handler              *)
(* (api/websocket_api.py: $connect, $disconnect).  A broadcast is          *)
(* [n, workflow_id, pc, connections, i, sent, ended_at]: connections is    *)
(* what its scan returned, sent the sends it tried, ended_at the number of *)
(* broadcasts started when it ended.  The state table is only read.        *)
(***************************************************************************)
ConnectionIds == {"c1", "c2"}

\* the workflows updates are broadcast for
WorkflowIds == {workflow_id, "wf2"}

\* query parameter workflowId of $connect ("None": not given)
Filters == WorkflowIds \cup {"None"}

\* post_to_connection returns, raises GoneException, raises an exception
\* whose text holds "Forbidden", or raises another exception
SendResults == {"ok", "gone", "forbidden", "error"}

\* handle_connect: put_item of the connection
Connect(connection_id, filter) ==
  /\ connects < MaxConnects
  /\ connects' = connects + 1
  /\ connections' =
       [c \in DOMAIN connections \cup {connection_id} |->
          IF c = connection_id
            THEN [connectionId |-> connection_id, workflowId |-> filter,
                  timestamp |-> connects + 1]
            ELSE connections[c]]
  /\ response' = [statusCode |-> 200]
  /\ UNCHANGED <<evars, bcast, skipped>>

\* nothing is deleted
DeleteItemNoOp(items, connection_id) == items

\* delete_item(Key = connectionId)
DeleteItem(items, connection_id) ==
  [c \in DOMAIN items \ {connection_id} |-> items[c]]

\* handle_disconnect
Disconnect(connection_id) ==
  /\ connection_id \in DOMAIN connections
  /\ connections' = DeleteItem(connections, connection_id)
  /\ response' = [statusCode |-> 200]
  /\ UNCHANGED <<evars, connects, bcast, skipped>>

\* the items connections_table.scan() returns, as a list
RECURSIVE Scan(_, _)
Scan(items, ids) ==
  IF ids = {} THEN <<>>
  ELSE LET c == CHOOSE x \in ids : TRUE
       IN IF c \in DOMAIN items
            THEN <<items[c]>> \o Scan(items, ids \ {c})
            ELSE Scan(items, ids \ {c})

\* the broadcast b goes on with the next connection, or ends
NextConnection(b) ==
  IF b.i < Len(b.connections)
    THEN [b EXCEPT !.i = @ + 1]
    ELSE [b EXCEPT !.pc = "done", !.ended_at = Cardinality(bcast)]

\* _broadcast_workflow_update(workflow_id, ...): the scan
BroadcastScan(wf) ==
  /\ Cardinality(bcast) < MaxBroadcasts
  /\ LET found == Scan(connections, ConnectionIds)
         b == [n |-> Cardinality(bcast) + 1, workflow_id |-> wf, pc |-> "send",
               connections |-> found, i |-> 1, sent |-> <<>>, ended_at |-> 0]
     IN bcast' = bcast \cup
          {IF Len(found) = 0
             THEN [b EXCEPT !.pc = "done", !.ended_at = Cardinality(bcast) + 1]
             ELSE b}
  /\ UNCHANGED <<evars, connections, connects, response, skipped>>

\* every connection is taken for stale after a failed send
StaleOnAnyError(result) == result # "ok"

\* no connection is taken for stale
StaleNever(result) == FALSE

\* the results after which the connection is deleted: GoneException, or an
\* exception whose text holds "Forbidden"
Stale(result) == result \in {"gone", "forbidden"}

\* "for connection in connections": one post_to_connection and its handlers
BroadcastSend(b, result) ==
  /\ b \in bcast /\ b.pc = "send"
  /\ LET connection == b.connections[b.i]
         connection_id == connection.connectionId
         tried == [connection |-> connection, result |-> result]
     IN
     /\ connections' = IF Stale(result)
                         THEN DeleteItem(connections, connection_id)
                         ELSE connections
     /\ bcast' = (bcast \ {b}) \cup
          {NextConnection([b EXCEPT !.sent = Append(@, tried)])}
  /\ UNCHANGED <<evars, connects, response, skipped>>

BroadcastNext ==
  \/ \E c \in ConnectionIds, f \in Filters : Connect(c, f)
  \/ \E c \in ConnectionIds : Disconnect(c)
  \/ \E wf \in WorkflowIds : BroadcastScan(wf)
  \/ \E b \in bcast, result \in SendResults : BroadcastSend(b, result)

BroadcastSpec == Init /\ [][BroadcastNext]_vars

(***************************************************************************)
(* The same, with calls of the WebSocket handler that fail: put_item or    *)
(* delete_item raises, the handler prints and returns 500.                 *)
(***************************************************************************)
\* handle_connect, put_item raises
ConnectError(connection_id) ==
  /\ response' = [statusCode |-> 500]
  /\ UNCHANGED <<evars, connections, connects, bcast, skipped>>

\* handle_disconnect, delete_item raises
DisconnectError(connection_id) ==
  /\ connection_id \in DOMAIN connections
  /\ response' = [statusCode |-> 500]
  /\ UNCHANGED <<evars, connections, connects, bcast, skipped>>

RegistryNext ==
  \/ BroadcastNext
  \/ \E c \in ConnectionIds : ConnectError(c)
  \/ \E c \in ConnectionIds : DisconnectError(c)

RegistrySpec == Init /\ [][RegistryNext]_vars

(***************************************************************************)
(* The stream handler on one record of any kind: the seed's INSERTs, the   *)
(* MODIFYs of decrements, promotions, claims and outcomes, the records of  *)
(* the META item, REMOVEs.  The record is delivered once, to a partition   *)
(* in any state a workflow seeded once can be in when the record arrives;  *)
(* the META item may be absent.                                            *)
(***************************************************************************)
\* the states of the TASK item of task_id, its counter at any value
StoreStates(task_id) ==
  ItemStates(task_id)
    \cup {[SeedItem(task_id) EXCEPT !.remainingDeps = k] :
            k \in 0..SeedItem(task_id).remainingDeps}

\* an item moved on from its seeded state only after a parent succeeded
Caused(store) ==
  \A c \in Tasks :
    \/ graph[c].dependsOn = <<>>
    \/ store[c] = SeedItem(c)
    \/ \E p \in SeqToSet(graph[c].dependsOn) : store[p].status = "SUCCEEDED"

\* the items an update_item of the engine can leave in place of old
Updates(old) ==
  (IF DecrementCondition(old) THEN {DecrementUpdate(old)} ELSE {})
    \cup (IF PromoteCondition(old) THEN {PromoteUpdate(old)} ELSE {})
    \cup (IF old.status = "READY" THEN {ClaimUpdate(old)} ELSE {})
    \cup (IF old.status \in {"RUNNING", "SUCCEEDED", "FAILED"}
            THEN {FinalizeUpdate(old, TRUE), FinalizeUpdate(old, FALSE)}
            ELSE {})

\* the image of the META item in a record
MetaItem(status) == [NoItem EXCEPT !.status = status]

\* the records of the TASK items of store, each with the partition it meets
TaskEvents(store) ==
  LET modify == UNION {{StreamRecord(t, old, store[t]) :
                          old \in {x \in StoreStates(t) : store[t] \in Updates(x)}} :
                        t \in Tasks}
      insert == {[StreamRecord(t, NoItem, store[t]) EXCEPT !.eventName = "INSERT"] :
                   t \in {u \in Tasks : store[u] = SeedItem(u)}}
      remove == {[rec |-> [StreamRecord(t, store[t], NoItem) EXCEPT
                             !.eventName = "REMOVE"],
                  tasks |-> [store EXCEPT ![t] = NoItem],
                  meta |-> m] : t \in Tasks, m \in {"NONE", "RUNNING"}}
  IN {[rec |-> rec, tasks |-> store, meta |-> m] :
        rec \in modify \cup insert, m \in {"NONE", "RUNNING"}}
       \cup remove

\* the records of the META item
MetaEvents(store) ==
  LET record(event_name, old, new) ==
        [eventName |-> event_name, type |-> "META", taskId |-> "META",
         status_old |-> old, NewImage |-> MetaItem(new)]
  IN {[rec |-> record("INSERT", "NONE", "PENDING"), tasks |-> store, meta |-> m] :
        m \in {"PENDING", "RUNNING"}}
       \cup {[rec |-> record("MODIFY", x[1], x[2]), tasks |-> store, meta |-> x[2]] :
               x \in {y \in {"PENDING", "RUNNING"} \X {"RUNNING", "SUCCEEDED", "FAILED"} :
                        y[1] # y[2]}}
       \cup {[rec |-> [record("REMOVE", "RUNNING", "NONE") EXCEPT !.NewImage = NoItem],
              tasks |-> store, meta |-> "NONE"]}

ReactInit ==
  /\ \E a \in StoreStates("A"), b1 \in StoreStates("B1"), b2 \in StoreStates("B2"),
        b3 \in StoreStates("B3"), c \in StoreStates("C") :
       LET store == [A |-> a, B1 |-> b1, B2 |-> b2, B3 |-> b3, C |-> c] IN
       /\ Caused(store)
       /\ \E ev \in TaskEvents(store) \cup MetaEvents(store) :
            /\ tasks = ev.tasks
            /\ meta = ev.meta
            /\ stream = {ev.rec}
            /\ delivered = [r \in {ev.rec} |-> 0]
  /\ seed = [pc |-> "done", i |-> Len(SeedKeys), new_status |-> "RUNNING"]
  /\ redelivered = MaxIncidents
  /\ orch = EmptyBag
  /\ stranded = {}
  /\ stops = 0
  /\ inbox = {}
  /\ requests = {}
  /\ extraReqs = 0
  /\ workers = {}
  /\ rejected = 0
  /\ failures = 0
  /\ claims = Zero
  /\ invoked = Zero
  /\ zeroDecs = Zero
  /\ promotions = Zero
  /\ emitted = Zero
  /\ NoBroadcast

\* the handler passes over the record: "continue" before any call
Dropped(rec) ==
  \/ rec.eventName \notin {"MODIFY", "INSERT"}
  \/ rec.NewImage = NoItem
  \/ ~ (FanOut(rec) \/ StatusOnly(rec))

\* the stream hands a record to an invocation, which passes over it
OrchDrop(rec) ==
  /\ rec \in stream
  /\ Dropped(rec)
  /\ delivered[rec] = 0 \/ Incidents < MaxIncidents
  /\ redelivered' = IF delivered[rec] = 0 THEN redelivered ELSE redelivered + 1
  /\ delivered' = [delivered EXCEPT ![rec] = @ + 1]
  /\ UNCHANGED <<bvars, tasks, meta, seed, stream, orch, stranded, stops, inbox,
                 requests, extraReqs, workers, rejected, failures, claims,
                 invoked, zeroDecs, promotions, emitted>>

ReactNext ==
  \/ \E rec \in stream : OrchStart(rec)
  \/ \E rec \in stream : OrchDrop(rec)
  \/ \E o \in Running : OrchWrite(o)
  \/ \E o \in Running : OrchDecrement(o)
  \/ \E o \in Running : OrchPromote(o)
  \/ \E o \in Running : OrchQuery(o)
  \/ \E o \in Running : OrchInvoke(o)

ReactSpec == ReactInit /\ [][ReactNext]_vars

(***************************************************************************)
(* The same, with calls that fail: update_item raises a ClientError whose  *)
(* code is not ConditionalCheckFailedException, lambda_client.invoke       *)
(* raises in _invoke_worker.                                               *)
(***************************************************************************)
\* the decrement raises: "except ClientError" tests the code and goes on
OrchDecrementError(o) ==
  /\ o \in Running /\ o.pc = "decrement"
  /\ orch' = Continue(o, Advance(o))
  /\ UNCHANGED <<bvars, tasks, meta, seed, stream, delivered, redelivered, stranded,
                 stops, inbox, requests, extraReqs, workers, rejected, failures,
                 emitted, claims, invoked, zeroDecs, promotions>>

\* the promotion raises: the inner "except ClientError" does the same
OrchPromoteError(o) ==
  /\ o \in Running /\ o.pc = "promote"
  /\ orch' = Continue(o, Advance(o))
  /\ UNCHANGED <<bvars, tasks, meta, seed, stream, delivered, redelivered, stranded,
                 stops, inbox, requests, extraReqs, workers, rejected, failures,
                 emitted, claims, invoked, zeroDecs, promotions>>

\* _invoke_worker raises for the requests in lost: "except Exception" prints
\* and the loop sends the others; the handler returns {"ok": True}
OrchInvokeError(o, lost) ==
  /\ o \in Running /\ o.pc = "invoke"
  /\ lost # {} /\ lost \subseteq ToExecute(o)
  /\ meta' = MetaWrite(meta, o.new_status)
  /\ inbox' = inbox \cup {Sent(req, emitted[req.taskId] + 1) : req \in ToExecute(o) \ lost}
  /\ requests' = requests \cup (ToExecute(o) \ lost)
  /\ emitted' = [t \in Tasks |->
       emitted[t] + Cardinality({k \in 1..Len(o.tasks_to_execute) :
                                   /\ o.tasks_to_execute[k].taskId = t
                                   /\ o.tasks_to_execute[k] \notin lost})]
  /\ orch' = Continue(o, [o EXCEPT !.pc = "done"])
  /\ UNCHANGED <<bvars, tasks, seed, stream, delivered, redelivered, stranded, stops,
                 extraReqs, workers, rejected, failures, claims, invoked, zeroDecs,
                 promotions>>

FaultNext ==
  \/ ReactNext
  \/ \E o \in Running : OrchDecrementError(o)
  \/ \E o \in Running : OrchPromoteError(o)
  \/ \E o \in Running : \E lost \in SUBSET ToExecute(o) : OrchInvokeError(o, lost)

FaultSpec == ReactInit /\ [][FaultNext]_vars

(***************************************************************************)
(* The entry of the Orchestrator: handler(event) on one event of any       *)
(* shape, on a partition that is empty or in any state of ReactInit.  The  *)
(* record of the invocation is seed, with the fields event, env (the       *)
(* tasks whose LAMBDA_<id>_ARN is set), before (the partition the event    *)
(* met) and result (what the handler returned or raised, [pending] before).*)
(***************************************************************************)
\* event.get(key, default)
Get(event, key, default) ==
  IF key \in DOMAIN event THEN event[key] ELSE default

\* any value of "mode" starts a workflow
StartModeAnyMode(event) == "mode" \in DOMAIN event

\* event.get("mode") == "start"
StartMode(event) == Get(event, "mode", "None") = "start"

\* the address mapping: the environment if complete, else event["lambdas"]
Lambdas(event, env) ==
  IF env = Tasks THEN env ELSE Get(event, "lambdas", {})

\* no address is looked up
ResolvesUnchecked(lambdas) == TRUE

\* lambdas[task_id] is found for every task of the graph
Resolves(lambdas) == Tasks \subseteq lambdas

\* the events with mode = "start"
StartEvents ==
  {[mode |-> "start", workflowId |-> workflow_id]}
    \cup {[mode |-> "start", workflowId |-> workflow_id, lambdas |-> l] :
            l \in {Tasks, Tasks \ {"C"}}}

\* the events of the stream, and those with another mode
BatchEvents(records) ==
  {[Records |-> records], [mode |-> "invalid_mode", Records |-> records]}

\* the events without records
EmptyEvents ==
  BatchEvents(<<>>)
    \cup {[workflowId |-> workflow_id],
          [mode |-> "invalid_mode", workflowId |-> workflow_id]}

EntryInit ==
  /\ \E a \in StoreStates("A"), b1 \in StoreStates("B1"), b2 \in StoreStates("B2"),
        b3 \in StoreStates("B3"), c \in StoreStates("C"), fresh \in BOOLEAN :
       LET store == IF fresh THEN [t \in Tasks |-> NoItem]
                    ELSE [A |-> a, B1 |-> b1, B2 |-> b2, B3 |-> b3, C |-> c]
       IN
       /\ fresh \/ Caused(store)
       /\ fresh => <<a, b1, b2, b3, c>> =
                     <<SeedItem("A"), SeedItem("B1"), SeedItem("B2"),
                       SeedItem("B3"), SeedItem("C")>>
       /\ \E ev \in
            {[event |-> e, env |-> env, tasks |-> store,
              meta |-> IF fresh THEN "NONE" ELSE "RUNNING"] :
               e \in StartEvents \cup EmptyEvents, env \in {Tasks, {}}}
            \cup (IF fresh THEN {}
                  ELSE UNION {{[event |-> e, env |-> {}, tasks |-> x.tasks,
                                meta |-> x.meta] : e \in BatchEvents(<<x.rec>>)} :
                                x \in TaskEvents(store)}) :
            /\ tasks = ev.tasks
            /\ meta = ev.meta
            /\ seed = [pc |-> "idle", i |-> 1, new_status |-> "SKIP",
                       event |-> ev.event, env |-> ev.env,
                       before |-> [tasks |-> ev.tasks, meta |-> ev.meta],
                       result |-> [pending |-> TRUE]]
  /\ stream = {}
  /\ delivered = [r \in {} |-> 0]
  /\ redelivered = MaxIncidents
  /\ orch = EmptyBag
  /\ stranded = {}
  /\ stops = 0
  /\ inbox = {}
  /\ requests = {}
  /\ extraReqs = 0
  /\ workers = {}
  /\ rejected = 0
  /\ failures = 0
  /\ claims = Zero
  /\ invoked = Zero
  /\ zeroDecs = Zero
  /\ promotions = Zero
  /\ emitted = Zero
  /\ NoBroadcast

\* "if ... event.get("mode") == "start"": the graph is built, which looks up
\* the address of every task and raises KeyError if one is missing
HandlerStart ==
  /\ seed.pc = "idle"
  /\ StartMode(seed.event)
  /\ seed' = IF Resolves(Lambdas(seed.event, seed.env))
               THEN [seed EXCEPT !.pc = "put"]
               ELSE [seed EXCEPT !.pc = "failed", !.result = [raised |-> "KeyError"]]
  /\ UNCHANGED <<bvars, tasks, meta, stream, delivered, redelivered, orch, stranded,
                 stops, inbox, requests, extraReqs, workers, rejected, failures,
                 claims, invoked, zeroDecs, promotions, emitted>>

\* return {"ok": True, "workflowId": workflow_id}
HandlerStartReturn ==
  /\ seed.pc = "done" /\ "result" \in DOMAIN seed
  /\ seed' = [seed EXCEPT !.pc = "returned",
                          !.result = [ok |-> TRUE, workflowId |-> workflow_id]]
  /\ UNCHANGED <<bvars, tasks, meta, stream, delivered, redelivered, orch, stranded,
                 stops, inbox, requests, extraReqs, workers, rejected, failures,
                 claims, invoked, zeroDecs, promotions, emitted>>

\* "for rec in event.get("Records", [])": the records are handled one by one
HandlerBatch ==
  /\ seed.pc = "idle"
  /\ ~ StartMode(seed.event)
  /\ LET records == SeqToSet(Get(seed.event, "Records", <<>>)) IN
     /\ stream' = records
     /\ delivered' = [r \in records |-> 0]
  /\ seed' = [seed EXCEPT !.pc = "batch"]
  /\ UNCHANGED <<bvars, tasks, meta, redelivered, orch, stranded,
                 stops, inbox, requests, extraReqs, workers, rejected, failures,
                 claims, invoked, zeroDecs, promotions, emitted>>

\* return {"ok": True}, after the last record
HandlerBatchReturn ==
  /\ seed.pc = "batch"
  /\ orch = EmptyBag
  /\ \A rec \in stream : delivered[rec] >= 1
  /\ seed' = [seed EXCEPT !.pc = "returned", !.result = [ok |-> TRUE]]
  /\ UNCHANGED <<bvars, tasks, meta, stream, delivered, redelivered, orch, stranded,
                 stops, inbox, requests, extraReqs, workers, rejected, failures,
                 claims, invoked, zeroDecs, promotions, emitted>>

EntryNext ==
  \/ HandlerStart
  \/ SeedPut
  \/ SeedInvoke
  \/ SeedQuery
  \/ SeedWrite
  \/ HandlerStartReturn
  \/ HandlerBatch
  \/ ReactNext
  \/ HandlerBatchReturn

EntrySpec == EntryInit /\ [][EntryNext]_vars

(***************************************************************************)
(* The stream handler with its broadcasts.  On a record it handles, the    *)
(* handler calls _broadcast_workflow_update after each accepted META write *)
(* (inside _update_workflow_status) and once more itself, before the       *)
(* dependents are parsed and again before the requests are sent.  A call   *)
(* runs to its end before the handler goes on.  One connection is         *)
(* registered; one record is delivered, once.                              *)
(***************************************************************************)
\* the connections table after one $connect event
Registered ==
  [c \in {"c1"} |-> [connectionId |-> c, workflowId |-> "None", timestamp |-> 1]]

NotifyInit ==
  /\ \E a \in StoreStates("A"), b1 \in StoreStates("B1"), b2 \in StoreStates("B2"),
        b3 \in StoreStates("B3"), c \in StoreStates("C") :
       LET store == [A |-> a, B1 |-> b1, B2 |-> b2, B3 |-> b3, C |-> c] IN
       /\ Caused(store)
       /\ \E ev \in {x \in TaskEvents(store) : ~ Dropped(x.rec)} :
            /\ tasks = ev.tasks
            /\ meta = ev.meta
            /\ stream = {ev.rec}
            /\ delivered = [r \in {ev.rec} |-> 0]
            /\ seed = [pc |-> "done", i |-> Len(SeedKeys), new_status |-> "RUNNING",
                       before |-> [tasks |-> ev.tasks, meta |-> ev.meta]]
  /\ redelivered = MaxIncidents
  /\ orch = EmptyBag
  /\ stranded = {}
  /\ stops = 0
  /\ inbox = {}
  /\ requests = {}
  /\ extraReqs = 0
  /\ workers = {}
  /\ rejected = 0
  /\ failures = 0
  /\ claims = Zero
  /\ invoked = Zero
  /\ zeroDecs = Zero
  /\ promotions = Zero
  /\ emitted = Zero
  /\ connections = Registered
  /\ connects = Cardinality(DOMAIN Registered)
  /\ bcast = {}
  /\ response = [statusCode |-> 200]
  /\ skipped = [kind \in SkipKinds |-> 0]

\* the broadcast calls that ended
Ended ==
  skipped["no_config"] + skipped["scan_error"]
    + Cardinality({b \in bcast : b.pc = "done"})

\* a broadcast call is between its scan and its last send
Sending == \E b \in bcast : b.pc = "send"

\* the calls around one _update_workflow_status: its own, made after an
\* accepted write only, and the handler's
PerUpdate == IF meta = "NONE" THEN 1 ELSE 2

\* the calls the handler has made when it is where the invocation stands
Due ==
  IF \A rec \in stream : delivered[rec] = 0 THEN 0
  ELSE IF orch = EmptyBag
    THEN IF requests = {} THEN PerUpdate ELSE 2 * PerUpdate
  ELSE LET o == CHOOSE x \in Running : TRUE IN
       IF o.pc = "write" THEN 0
       ELSE IF o.pc = "send" THEN 2 * PerUpdate
       ELSE PerUpdate

\* the handler is in none of its broadcast calls, and owes none
Notified == Ended = Due /\ ~ Sending

\* the handler is about to call _broadcast_workflow_update
Calling == Ended < Due /\ ~ Sending

\* only the missing configuration is passed over
SwallowedConfigOnly(kind) == kind = "no_config"

\* "return" at the missing URL; "except Exception" around the scan
Swallowed(kind) == kind \in {"no_config", "scan_error"}

\* a call ends before its scan returns; an exception that is not caught
\* ends the invocation
NotifySkip(kind) ==
  /\ Calling
  /\ skipped' = [skipped EXCEPT ![kind] = @ + 1]
  /\ orch' = IF Swallowed(kind) THEN orch ELSE EmptyBag
  /\ UNCHANGED <<tasks, meta, seed, stream, delivered, redelivered, stranded,
                 stops, inbox, requests, extraReqs, workers, rejected, failures,
                 claims, invoked, zeroDecs, promotions, emitted,
                 connections, connects, bcast, response>>

\* a call gets as far as its scan
NotifyScan ==
  /\ Calling
  /\ BroadcastScan(workflow_id)

\* "if tasks_to_execute": the second _update_workflow_status writes
OrchInvokeWrite(o) ==
  /\ o \in Running /\ o.pc = "invoke"
  /\ meta' = MetaWrite(meta, o.new_status)
  /\ orch' = Continue(o, [o EXCEPT !.pc = "send"])
  /\ UNCHANGED <<bvars, tasks, seed, stream, delivered, redelivered, stranded,
                 stops, inbox, requests, extraReqs, workers, rejected, failures,
                 claims, invoked, zeroDecs, promotions, emitted>>

\* "for task_req in tasks_to_execute": every collected request is sent
OrchInvokeSend(o) ==
  /\ o \in Running /\ o.pc = "send"
  /\ inbox' = inbox \cup {Sent(req, emitted[req.taskId] + 1) : req \in ToExecute(o)}
  /\ requests' = requests \cup ToExecute(o)
  /\ emitted' = [t \in Tasks |->
       emitted[t] + Cardinality({k \in 1..Len(o.tasks_to_execute) :
                                   o.tasks_to_execute[k].taskId = t})]
  /\ orch' = Continue(o, [o EXCEPT !.pc = "done"])
  /\ UNCHANGED <<bvars, tasks, meta, seed, stream, delivered, redelivered,
                 stranded, stops, extraReqs, workers, rejected, failures, claims,
                 invoked, zeroDecs, promotions>>

NotifyNext ==
  \/ \E rec \in stream : Notified /\ OrchStart(rec)
  \/ \E o \in Running : Notified /\ OrchWrite(o)
  \/ \E o \in Running : Notified /\ OrchDecrement(o)
  \/ \E o \in Running : Notified /\ OrchPromote(o)
  \/ \E o \in Running : Notified /\ OrchQuery(o)
  \/ \E o \in Running : Notified /\ OrchInvokeWrite(o)
  \/ \E o \in Running : Notified /\ OrchInvokeSend(o)
  \/ \E kind \in SkipKinds : NotifySkip(kind)
  \/ NotifyScan
  \/ \E b \in bcast, result \in SendResults : BroadcastSend(b, result)

NotifySpec == NotifyInit /\ [][NotifyNext]_vars

(***************************************************************************)
(* Properties.                                                             *)
(***************************************************************************)
Started == {"RUNNING", "SUCCEEDED", "FAILED"}

Sum(f) == f["A"] + f["B1"] + f["B2"] + f["B3"] + f["C"]

\* Worker invocations handled so far
Handled == extraReqs + Sum(emitted) - Cardinality(inbox)

\* the stream record of task_id written as status, if there is one
RecordsOf(task_id, status) ==
  {rec \in stream : rec.taskId = task_id /\ rec.NewImage.status = status}

\* some record was handed to the Orchestrator more than once
SomeRedelivery == \E rec \in stream : delivered[rec] >= 2

\* the dep an invocation is working on
DepOf(o) == o.dependents[o.i]

\* C1: for every edge u -> v, v is RUNNING, SUCCEEDED or FAILED only if u is
\* SUCCEEDED, whatever the interleaving and the redeliveries.
C1_EdgeOrder ==
  \A e \in Edges :
    tasks[e[2]].status \in Started => tasks[e[1]].status = "SUCCEEDED"

\* C2: of the Worker invocations for one task at most one claim is accepted,
\* every other invocation returns ok = false, and the target is invoked at
\* most once.
C2_ClaimOnce ==
  /\ \A t \in Tasks : claims[t] <= 1 /\ invoked[t] <= claims[t]
  /\ Handled = Sum(claims) + rejected

\* C2 happens: A was claimed once and two more invocations for A were rejected
C2_Witness ==
  /\ claims["A"] = 1 /\ invoked["A"] = 1
  /\ \A t \in Tasks \ {"A"} : emitted[t] = 0
  /\ extraReqs = 2 /\ rejected = 2

\* C3: the promotion PENDING -> READY of a task is accepted at most once.
C3_PromotedOnce == \A t \in Tasks : promotions[t] <= 1

\* C3 happens: B1 was promoted and the record of A was handled three times
C3_Witness ==
  /\ promotions["B1"] = 1
  /\ \E rec \in RecordsOf("A", "SUCCEEDED") : delivered[rec] = 3
  /\ orch = EmptyBag

\* the requests for t an invocation in flight has collected
Collected(t) ==
  Cardinality({<<o, k>> \in UNION {{o} \X (1..Len(o.tasks_to_execute)) : o \in Running} :
                 o.tasks_to_execute[k].taskId = t})

\* C4: for every task but the root at most one TaskExecutionRequest is sent,
\* and only by the invocation whose promotion was accepted.
C4_EmittedOnce ==
  \A t \in Tasks \ {"A"} :
    /\ emitted[t] <= 1
    /\ emitted[t] + Collected(t) <= promotions[t]

\* C4 happens: the request for C was sent although a record came twice
C4_Witness == emitted["C"] = 1 /\ SomeRedelivery

\* C9: remainingDeps >= 0 for every task.
C9_RemainingDepsNonNegative ==
  \A t \in Tasks : tasks[t].remainingDeps >= 0

\* C9 happens: a second delivery of A's record found B1..B3 at 0
C9_Witness ==
  /\ \E rec \in RecordsOf("A", "SUCCEEDED") : delivered[rec] >= 2
  /\ orch = EmptyBag /\ stops = 0
  /\ \A t \in {"B1", "B2", "B3"} : tasks[t].remainingDeps = 0

\* C10 as claimed: a PENDING task has remainingDeps > 0 in every state.
C10_PendingHasDeps ==
  \A t \in Tasks : tasks[t].status = "PENDING" => tasks[t].remainingDeps > 0

\* the promotion of t is still to come in an invocation, or was lost when
\* the invocation stopped
PromotionPending(t) ==
  \/ \E o \in Running : o.pc = "promote" /\ DepOf(o) = t
  \/ t \in stranded

\* C10 amended: a PENDING task has remainingDeps > 0, except after the one
\* accepted decrement that brought it to 0 and before the promotion by the
\* same invocation (for ever, if that invocation stops in between).
C10_PendingHasDepsOrPromotionPending ==
  \A t \in Tasks :
    tasks[t].status = "PENDING" =>
      \/ tasks[t].remainingDeps > 0
      \/ /\ tasks[t].remainingDeps = 0
         /\ zeroDecs[t] = 1
         /\ PromotionPending(t)

\* C10 happens: C is PENDING at 0 and the invocation that had to promote it
\* has stopped
C10_Witness ==
  /\ tasks["C"].status = "PENDING" /\ tasks["C"].remainingDeps = 0
  /\ "C" \in stranded /\ orch = EmptyBag

\* C5: handling a stream record N times leaves the same task items and the
\* same set of sent requests as handling it once (N = 2 decides it: the
\* second run starts from the items the first one left).
C5_ReplayIdempotent ==
  \A rec \in stream :
    LET once  == React(tasks, rec)
        twice == React(once.tasks, rec)
    IN /\ twice.tasks = once.tasks
       /\ SeqToSet(twice.tasks_to_execute) \subseteq SeqToSet(once.tasks_to_execute)

Bs == {"B1", "B2", "B3"}

\* the SUCCEEDED records of B1, B2, B3 handed to the Orchestrator
HandledB ==
  {rec \in stream : /\ rec.taskId \in Bs
                    /\ rec.NewImage.status = "SUCCEEDED"
                    /\ delivered[rec] >= 1}

\* an invocation for a record of one of the tasks S is in flight
InFlightFor(S) == \E o \in Running : o.rec.taskId \in S

\* no record of B1, B2, B3 was handed over twice
BOnce == \A rec \in stream : rec.taskId \in Bs => delivered[rec] <= 1

\* C6: when the SUCCEEDED records of B1, B2, B3 are each delivered once, C
\* reaches remainingDeps = 0 with the third accepted decrement only, is
\* promoted once, by the invocation whose decrement returned 0, and one
\* request for C is sent.
C6_LastParentPromotes ==
  BOnce =>
    /\ tasks["C"] # NoItem => tasks["C"].remainingDeps >= 3 - Cardinality(HandledB)
    /\ zeroDecs["C"] <= 1
    /\ promotions["C"] + Cardinality({o \in Running : o.pc = "promote" /\ DepOf(o) = "C"})
         <= zeroDecs["C"]
    /\ emitted["C"] <= promotions["C"]
    /\ (Cardinality(HandledB) = 3 /\ ~ InFlightFor(Bs) /\ stops = 0) =>
         /\ tasks["C"].remainingDeps = 0
         /\ promotions["C"] = 1
         /\ emitted["C"] = 1
         /\ TaskExecutionRequest("C", 1) \in requests

\* C6 happens: the three records were handled once each, every invocation
\* is over, and the request for C is out
C6_Witness ==
  /\ BOnce /\ Cardinality(HandledB) = 3 /\ orch = EmptyBag /\ stops = 0
  /\ emitted["C"] = 1

\* the SUCCEEDED record of A was handed over three times
AThrice == \E rec \in RecordsOf("A", "SUCCEEDED") : delivered[rec] = 3

\* C8: when A's SUCCEEDED record is delivered three times, each of B1, B2,
\* B3 is promoted once, to version 1 with remainingDeps = 0, and three
\* requests are sent in all, each with expectedVersion = 1.
C8_RedeliveryOfA ==
  /\ \A b \in Bs :
       /\ promotions[b] <= 1 /\ emitted[b] <= 1
       /\ \A req \in requests : req.taskId = b => req.expectedVersion = 1
  /\ (AThrice /\ ~ InFlightFor({"A"}) /\ stops = 0) =>
       /\ \A b \in Bs :
            /\ promotions[b] = 1
            /\ tasks[b].remainingDeps = 0
            /\ tasks[b].version >= 1
            /\ emitted[b] = 1
            /\ TaskExecutionRequest(b, 1) \in requests
       /\ emitted["B1"] + emitted["B2"] + emitted["B3"] = 3

\* C8 happens: three deliveries of A's record are over
C8_Witness ==
  /\ AThrice /\ orch = EmptyBag
  /\ \A b \in Bs : emitted[b] = 1 /\ tasks[b].status = "READY"

AllSucceeded == \A t \in Tasks : tasks[t].status = "SUCCEEDED"

\* C7: under fair scheduling, when every target invocation succeeds and no
\* invocation stops, the workflow reaches a state where the five tasks are
\* SUCCEEDED and the META status is SUCCEEDED.
C7_Completes == <>(AllSucceeded /\ meta = "SUCCEEDED")

\* C7 happens: the workflow is complete, also after a record came twice
C7_Witness == AllSucceeded /\ meta = "SUCCEEDED" /\ SomeRedelivery

\* C11: in every reachable state a task whose status is READY has
\* remainingDeps = 0.
C11_ReadyHasNoDeps ==
  \A t \in Tasks : tasks[t].status = "READY" => tasks[t].remainingDeps = 0

\* a promoted task is READY, after some record was delivered again
C11_Witness ==
  /\ tasks["C"].status = "READY" /\ promotions["C"] = 1
  /\ SomeRedelivery

\* C12: every status transition of a task strictly increases its version
\* (PENDING->READY, READY->RUNNING, RUNNING->SUCCEEDED, RUNNING->FAILED).
C12_TransitionsIncreaseVersion ==
  [][\A t \in Tasks :
       (tasks[t] # NoItem /\ tasks'[t].status # tasks[t].status)
         => tasks'[t].version > tasks[t].version]_vars

\* C13: for every non-empty combination of task statuses the recomputation
\* yields FAILED if any task is FAILED; otherwise SUCCEEDED if all tasks are
\* SUCCEEDED; otherwise RUNNING if any task is RUNNING or READY; otherwise
\* PENDING.
C13_StatusTable ==
  (seed.pc = "done" /\ QueryStatuses # {}) =>
    meta = IF "FAILED" \in QueryStatuses THEN "FAILED"
           ELSE IF QueryStatuses = {"SUCCEEDED"} THEN "SUCCEEDED"
           ELSE IF QueryStatuses \cap {"RUNNING", "READY"} # {} THEN "RUNNING"
           ELSE "PENDING"

\* FAILED wins over RUNNING and SUCCEEDED tasks, and replaces another status
C13_Witness ==
  /\ seed.pc = "done" /\ meta = "FAILED"
  /\ {"FAILED", "RUNNING", "SUCCEEDED"} \subseteq QueryStatuses
  /\ seed.new_status = "FAILED"

\* no invocation is in progress, no request is waiting, and every record
\* was handled by an invocation that ran to its end
Quiescent ==
  /\ seed.pc = "done" /\ orch = EmptyBag /\ workers = {} /\ inbox = {}
  /\ \A rec \in stream : delivered[rec] >= 1
  /\ stops = 0

\* C14: whenever no Orchestrator or Worker invocation is in progress and
\* every change-log event has been processed, the stored status of the
\* workflow is the tabulated function of the current task statuses, also
\* when invocations (the seed's recomputation included) overlap.
C14_MetaIsFunctionOfTasks ==
  Quiescent => meta = WorkflowStatus(QueryStatuses)

\* C15: a task with a FAILED parent is never promoted: it stays PENDING with
\* remainingDeps > 0 and no TaskExecutionRequest is sent for it, also when
\* the records of its other parents are delivered, once or several times.
C15_FailedParentHalts ==
  \A e \in Edges :
    tasks[e[1]].status = "FAILED" =>
      /\ tasks[e[2]].status = "PENDING"
      /\ tasks[e[2]].remainingDeps > 0
      /\ emitted[e[2]] = 0

SomeFailed == \E t \in Tasks : tasks[t].status = "FAILED"

\* C16: after a task is recorded FAILED, the handling of its change-log
\* record sets the status of the workflow to FAILED: when records are
\* delivered fairly, a workflow with a FAILED task has, at some time, META
\* status FAILED.
C16_FailureSurfaces == (<>SomeFailed) => <>(meta = "FAILED")

\* the record of the FAILED task was handled and META says FAILED
C16_Witness ==
  /\ SomeFailed /\ meta = "FAILED"
  /\ \E rec \in stream : rec.NewImage.status = "FAILED" /\ delivered[rec] >= 1

\* C17: once the status of the workflow was written as FAILED no later write
\* changes it, the recomputations after siblings complete and those of
\* overlapping invocations included.
C17_FailedIsFinal == [][meta = "FAILED" => meta' = "FAILED"]_vars

\* the ids a comma-joined attribute holds
IdsOf(csv) == IF Len(csv) = 0 THEN {} ELSE SeqToSet(Split(csv))

\* C18: after the seed a query of the partition yields META with the status
\* PENDING it was written with and exactly one TASK item per node of the
\* DAG, each with version 0, dependsOn and dependents equal to the edges of
\* the DAG, remainingDeps = |dependsOn|, and status READY if and only if
\* |dependsOn| = 0 (PENDING otherwise).
C18_SeedRoundTrip ==
  seed.pc = "invoke" =>
    /\ meta = "PENDING"
    /\ \A t \in Tasks :
         /\ tasks[t] # NoItem
         /\ tasks[t].version = 0
         /\ IdsOf(tasks[t].dependsOn) = {u \in Tasks : <<u, t>> \in Edges}
         /\ IdsOf(tasks[t].dependents) = {v \in Tasks : <<t, v>> \in Edges}
         /\ tasks[t].remainingDeps = Cardinality(IdsOf(tasks[t].dependsOn))
         /\ tasks[t].status \in {"READY", "PENDING"}
         /\ tasks[t].status = "READY" <=> IdsOf(tasks[t].dependsOn) = {}

\* the batch is written: the root is READY, C waits for three parents
C18_Witness ==
  /\ seed.pc = "invoke"
  /\ tasks["A"].status = "READY" /\ tasks["C"].remainingDeps = 3
  /\ IdsOf(tasks["C"].dependsOn) = {"B1", "B2", "B3"}

\* C19: the seed sends exactly one TaskExecutionRequest per root task (one,
\* for A), with expectedVersion = 0 and correlationId = workflowId, and none
\* for a task seeded as PENDING.
C19_SeedTriggersRoots ==
  /\ seed.pc \in {"put", "invoke"} => requests = {} /\ emitted = Zero
  /\ seed.pc \in {"query", "write", "done"} =>
       /\ emitted["A"] = 1
       /\ \A req \in requests : req.taskId = "A" =>
            /\ req.expectedVersion = 0
            /\ req.correlationId = req.workflowId
       /\ \E req \in requests : req.taskId = "A"
  /\ \A t \in Tasks \ {"A"} : emitted[t] > 0 => promotions[t] > 0

\* the seed has sent the request for A and nothing else was sent yet
C19_Witness ==
  /\ seed.pc = "query"
  /\ Cardinality(requests) = 1 /\ Sum(emitted) = 1
  /\ \E sent \in inbox : sent.taskId = "A" /\ sent.expectedVersion = 0

\* the Worker handles the request (t, v) in this step
Handles(t, v) ==
  \/ WorkerClaimExtra(t, v)
  \/ \E sent \in inbox :
       sent.taskId = t /\ sent.expectedVersion = v /\ WorkerClaim(sent)

\* C20: a TaskExecutionRequest whose claim is rejected (the task is not
\* READY, or its version differs from expectedVersion) has no side effect:
\* the task record is unchanged, the target is not invoked, no further write
\* is made, and the Worker returns ok = false.
C20_RejectedClaimNoEffect ==
  [][\A t \in Tasks, v \in 0..MaxExpectedVersion :
       (Handles(t, v) /\ ~ (tasks[t].status = "READY" /\ tasks[t].version = v))
         => /\ tasks' = tasks /\ meta' = meta /\ stream' = stream
            /\ invoked' = invoked /\ workers' = workers /\ claims' = claims
            /\ rejected' = rejected + 1]_vars

\* a request was rejected and nothing was claimed: A is READY as seeded
C20_Witness ==
  /\ rejected = 1 /\ Sum(claims) = 0 /\ Sum(invoked) = 0
  /\ tasks["A"] = SeedItem("A")

\* the Worker invocations that returned after an accepted claim
Returned == {w \in workers : DOMAIN w # {"taskId", "n"} /\ w.pc = "returned"}

\* C21: after an accepted claim the Worker makes exactly one finalize write:
\* SUCCEEDED when the target invocation succeeded with a JSON payload,
\* FAILED when it failed or returned a payload that is not JSON; it returns
\* ok = true only in the first case, and a target invocation that failed is
\* never recorded as SUCCEEDED.
C21_OutcomeRecorded ==
  \A w \in Returned :
    /\ Len(w.writes) = 1
    /\ w.resp = "json" => w.writes = <<"SUCCEEDED">> /\ w.ok
    /\ w.resp # "json" => w.writes = <<"FAILED">> /\ ~ w.ok

\* C22: a Worker whose target does not complete within deadlineMs of its
\* request records the task as FAILED: the task does not stay RUNNING and is
\* not recorded SUCCEEDED after the deadline.
C22_DeadlineRecordsFailed ==
  \A w \in Returned :
    (\A req \in requests : req.taskId = w.taskId => w.duration_ms > req.deadlineMs)
      => tasks[w.taskId].status = "FAILED"

\* the sends the broadcast b tried
Tried(b) == {b.sent[k] : k \in 1..Len(b.sent)}

\* C23: a broadcast for workflow w tries a send only to the connections whose
\* registered filter is absent or equals w.
C23_BroadcastHonoursFilter ==
  \A b \in bcast : \A t \in Tried(b) :
    t.connection.workflowId \in {"None", b.workflow_id}

\* C24: if the send to connection c fails with GONE during a broadcast, then
\* after that broadcast c is absent from the connections table, and no
\* broadcast started later tries a send to c, unless $connect added c again.
C24_GoneIsReaped ==
  \A b \in bcast : \A t \in Tried(b) :
    (b.pc = "done" /\ t.result = "gone") =>
      LET c == t.connection.connectionId IN
      /\ c \in DOMAIN connections =>
           connections[c].timestamp > t.connection.timestamp
      /\ \A b2 \in bcast : \A t2 \in Tried(b2) :
           (b2.n > b.ended_at /\ t2.connection.connectionId = c)
             => t2.connection.timestamp > t.connection.timestamp

\* GONE for a connection in a broadcast that ended; a later broadcast has
\* run to its end on the other connection, the first is still absent
C24_Witness ==
  \E b, b2 \in bcast : \E t \in Tried(b) :
    /\ b.pc = "done" /\ t.result = "gone"
    /\ b2.n > b.ended_at /\ b2.pc = "done" /\ Len(b2.sent) = 1
    /\ t.connection.connectionId \notin DOMAIN connections

\* the broadcast b is at its next connection after this step
GoesOn(b) ==
  b.i < Len(b.connections) =>
    \E b2 \in bcast' : b2.n = b.n /\ b2.pc = "send" /\ b2.i = b.i + 1

\* C25: if the send to a connection fails with an error other than GONE,
\* the connection stays in the connections table and the broadcast goes on
\* with the remaining connections; only GONE removes a connection during a
\* broadcast.
C25_OnlyGoneRemoves ==
  [][\A b \in bcast, result \in SendResults :
       (BroadcastSend(b, result) /\ result \notin {"ok", "gone"})
         => connections' = connections /\ GoesOn(b)]_vars

\* C25 as amended: if the send fails with an error that is neither GONE nor
\* Forbidden, the connection stays and the broadcast goes on with the
\* remaining connections; only GONE and Forbidden remove a connection
\* during a broadcast.
C25_OnlyStaleRemoves ==
  [][\A b \in bcast, result \in SendResults :
       BroadcastSend(b, result) =>
         /\ GoesOn(b)
         /\ result \notin {"gone", "forbidden"} => connections' = connections
         /\ connections' # connections => result \in {"gone", "forbidden"}]_vars

\* a send failed with another error: the connection is still registered and
\* the broadcast went on to the next connection
C25_Witness ==
  \E b \in bcast :
    /\ Len(b.sent) = 2
    /\ b.sent[1].result = "error"
    /\ b.sent[1].connection.connectionId \in DOMAIN connections
    /\ b.sent[2].connection.connectionId # b.sent[1].connection.connectionId

\* a MODIFY record of a TASK item whose status differs between the images
StatusChanged(rec) ==
  /\ rec.eventName = "MODIFY" /\ rec.type = "TASK"
  /\ rec.NewImage # NoItem
  /\ rec.status_old # rec.NewImage.status

\* C26: every change-log event of a TASK record whose status differs
\* between old and new image (PENDING->READY and READY->RUNNING included)
\* makes react recompute the workflow status and broadcast: the handler
\* passes over no such record.
C26_StatusChangeRecomputes ==
  [][\A rec \in stream : OrchDrop(rec) => ~ StatusChanged(rec)]_vars

\* an event of a TASK record whose new status is SUCCEEDED and whose old
\* status is not
Completion(rec) ==
  /\ rec.eventName \in {"MODIFY", "INSERT"} /\ rec.type = "TASK"
  /\ rec.NewImage.status = "SUCCEEDED"
  /\ rec.status_old # "SUCCEEDED"

\* C27: react runs the dependency-decrement protocol only for events of
\* TASK records whose new status is SUCCEEDED and whose old status is not:
\* the handling of any other event leaves every task item as it is and
\* sends no TaskExecutionRequest.
C27_ProtocolOnlyOnCompletion ==
  [][(\A rec \in stream : ~ Completion(rec)) =>
       /\ tasks' = tasks
       /\ requests' = requests /\ inbox' = inbox /\ emitted' = emitted]_vars

\* a FAILED transition was handled to its end (the status was recomputed),
\* next to a dependent that could be decremented
C27_Witness ==
  \E rec \in stream :
    /\ ~ Completion(rec) /\ rec.type = "TASK"
    /\ rec.NewImage.status = "FAILED" /\ rec.status_old = "RUNNING"
    /\ delivered[rec] = 1 /\ orch = EmptyBag /\ meta = "FAILED"
    /\ \E dep \in SeqToSet(graph[rec.taskId].dependents) :
         DecrementCondition(tasks[dep])

\* C28: the status recomputation writes the META item only if it exists:
\* while it is absent no write of the Orchestrator creates it, and the
\* invocation goes on: after its first recomputation to the decrement of
\* the first dependent, after its second to the sending of every request.
C28_AbsentMetaNotCreated ==
  [][\A o \in Running :
       meta = "NONE" /\ (OrchWrite(o) \/ OrchInvoke(o)) =>
         /\ meta' = "NONE"
         /\ OrchWrite(o) /\ FanOut(o.rec) /\ Len(o.rec.NewImage.dependents) > 0 =>
              \E o2 \in BagToSet(orch') :
                o2.rec = o.rec /\ o2.pc = "decrement" /\ o2.i = 1
         /\ OrchInvoke(o) => requests' = requests \cup ToExecute(o)]_vars

\* with META absent, a dependent was promoted and its request sent
C28_Witness ==
  /\ meta = "NONE"
  /\ \E t \in Tasks :
       /\ promotions[t] = 1
       /\ \E req \in requests : req.taskId = t
  /\ orch = EmptyBag

\* C29: when an update of the decrement or promotion step fails for a
\* reason other than a rejected condition, or the sending of a request to
\* the Worker fails, the invocation fails instead of returning ok.
C29_TransportErrorFailsInvocation ==
  [][\A o \in Running :
       (\/ OrchDecrementError(o)
        \/ OrchPromoteError(o)
        \/ \E lost \in SUBSET ToExecute(o) : OrchInvokeError(o, lost)) =>
         /\ stops' = stops + 1
         /\ orch' = orch (-) SetToBag({o})]_vars

\* the records of the parents of t that passed the fan-out filter
ParentSucceeded(t) ==
  {rec \in stream : <<rec.taskId, t>> \in Edges /\ FanOut(rec)}

\* C30: when an invocation stopped between the decrement that brought a
\* child to 0 and its promotion, a redelivery of the parent-succeeded
\* event promotes the child and emits its request: a child left PENDING
\* with all parents SUCCEEDED and no invocation in flight is promoted, and
\* its request collected, by the handling of some parent's record.
C30_RedeliveryRecovers ==
  \A t \in stranded :
    (/\ orch = EmptyBag
     /\ tasks[t].status = "PENDING"
     /\ \A e \in Edges : e[2] = t => tasks[e[1]].status = "SUCCEEDED") =>
      \E rec \in ParentSucceeded(t) :
        LET again == React(tasks, rec) IN
        /\ again.tasks[t].status = "READY"
        /\ \E req \in SeqToSet(again.tasks_to_execute) : req.taskId = t

\* the task was claimed and no Worker invocation is in flight for it
Stuck(t) ==
  /\ tasks[t].status = "RUNNING"
  /\ \A w \in workers : w.taskId # t

\* C31: once a Worker stopped between its claim and the write of the
\* outcome, the task stays RUNNING, none of its dependents is promoted to
\* READY and the workflow status does not become SUCCEEDED, whatever the
\* stream delivers afterwards.
C31_StuckTaskBlocksDependents ==
  [][\A e \in Edges :
       Stuck(e[1]) =>
         /\ Stuck(e[1])'
         /\ tasks[e[2]].status = "PENDING" => tasks'[e[2]].status = "PENDING"
         /\ meta' # "SUCCEEDED"]_vars

\* the steps of the seed
SeedSteps == {"put", "invoke", "query", "write", "done"}

\* the partition a seed leaves
Seeded == [t \in Tasks |-> SeedItem(t)]

\* C32: the handler runs the seed, once, and returns {ok, workflowId} if
\* and only if the event has mode = "start"; every other event is handled
\* as a batch of stream records, and a batch without records returns
\* {ok: true} with no write to the store and no request sent.
C32_StartModeOnly ==
  LET event == seed.event
      start == "mode" \in DOMAIN event /\ event.mode = "start"
  IN
  /\ seed.pc \in SeedSteps \cup {"failed"} => start
  /\ seed.pc = "batch" => ~ start
  /\ seed.pc = "returned" =>
       /\ start <=> seed.result = [ok |-> TRUE, workflowId |-> workflow_id]
       /\ ~ start <=> seed.result = [ok |-> TRUE]
       /\ start => tasks = Seeded /\ requests = SeedRequests /\ Sum(emitted) = 1
       /\ ~ start /\ stream = {} =>
            /\ tasks = seed.before.tasks /\ meta = seed.before.meta
            /\ requests = {} /\ inbox = {}

\* an event with an unknown mode and no records returned {ok: true} on a
\* partition in progress
C32_Witness ==
  /\ seed.pc = "returned"
  /\ "mode" \in DOMAIN seed.event /\ seed.event.mode = "invalid_mode"
  /\ stream = {}
  /\ seed.result = [ok |-> TRUE]
  /\ tasks["A"].status = "SUCCEEDED"

\* the address mapping of the event misses a task of the graph
MissingAddress ==
  /\ "mode" \in DOMAIN seed.event /\ seed.event.mode = "start"
  /\ seed.env # Tasks
  /\ \/ "lambdas" \notin DOMAIN seed.event
     \/ seed.event.lambdas # Tasks

\* C33: the seed fails when the graph names a task that the address
\* mapping does not hold, and a seed that fails this way writes nothing to
\* the store and sends no request.
C33_MissingAddressFailsSeed ==
  /\ MissingAddress /\ seed.pc # "idle" => seed.pc = "failed"
  /\ seed.pc = "failed" =>
       /\ MissingAddress
       /\ seed.result # [ok |-> TRUE, workflowId |-> workflow_id]
       /\ tasks = seed.before.tasks /\ meta = seed.before.meta
       /\ requests = {} /\ inbox = {}

\* a seed failed on an empty partition
C33_Witness ==
  /\ seed.pc = "failed"
  /\ "lambdas" \in DOMAIN seed.event /\ seed.event.lambdas = Tasks \ {"C"}
  /\ \A t \in Tasks : tasks[t] = NoItem

\* the broadcast b deletes the item of c in this step
Reaps(b, c) ==
  /\ b.pc = "send" /\ b.connections[b.i].connectionId = c
  /\ \E result \in {"gone", "forbidden"} : BroadcastSend(b, result)

\* C34: the registry holds connection c exactly when a $connect added it
\* and no $disconnect or broadcast removed it since: an item appears (or is
\* replaced) only by a $connect, which stores the workflowId parameter as
\* its filter, and disappears only by a $disconnect or by the reaping of a
\* broadcast; a $connect leaves the item in, a $disconnect leaves it out,
\* and both return 200 when they succeed.
C34_RegistryLifecycle ==
  [][\A c \in ConnectionIds :
       LET was == c \in DOMAIN connections
           is  == c \in DOMAIN connections'
       IN
       /\ \A f \in Filters :
            Connect(c, f) =>
              is /\ connections'[c].workflowId = f /\ response'.statusCode = 200
       /\ Disconnect(c) => ~ is /\ response'.statusCode = 200
       /\ is /\ (~ was \/ connections'[c] # connections[c]) =>
            \E f \in Filters : Connect(c, f)
       /\ was /\ ~ is =>
            \/ Disconnect(c)
            \/ \E b \in bcast : Reaps(b, c)
       /\ response' # response /\ response'.statusCode = 500 =>
            connections' = connections]_vars

\* c1 was added, reaped by a broadcast and added again with a filter
C34_Witness ==
  /\ "c1" \in DOMAIN connections
  /\ connections["c1"].workflowId = "wf2" /\ connections["c1"].timestamp = 2
  /\ \E b \in bcast :
       \E k \in 1..Len(b.sent) :
         /\ b.sent[k].connection.connectionId = "c1"
         /\ b.sent[k].result = "gone"
  /\ response.statusCode = 200

\* C35: every write of an outcome by a Worker (SUCCEEDED or FAILED, without
\* condition) is applied to a task item that is RUNNING: no record of such
\* a write shows another old status, also when the write of SUCCEEDED
\* raises after it was applied and the Worker goes on to write FAILED.
C35_FinalizeOverwritesRunningOnly ==
  \A rec \in stream : rec.status_old = "RUNNING"

\* the transitions of the status of a task
Transitions ==
  {<<"PENDING", "READY">>, <<"READY", "RUNNING">>,
   <<"RUNNING", "SUCCEEDED">>, <<"RUNNING", "FAILED">>}

\* C37: in a workflow seeded once the status of a task changes only along
\* PENDING->READY, READY->RUNNING, RUNNING->SUCCEEDED and RUNNING->FAILED:
\* SUCCEEDED and FAILED are never left and CANCELED is never written.
C37_StatusTransitions ==
  [][\A t \in Tasks :
       tasks[t] # NoItem /\ tasks'[t].status # tasks[t].status =>
         <<tasks[t].status, tasks'[t].status>> \in Transitions]_vars

\* the parents of t that were written SUCCEEDED
SucceededParents(t) ==
  {p \in Tasks : /\ <<p, t>> \in Edges
                 /\ \E rec \in stream : /\ rec.taskId = p
                                        /\ rec.NewImage.status = "SUCCEEDED"}

\* the decrements accepted on t so far
Decrements(t) == SeedItem(t).remainingDeps - tasks[t].remainingDeps

Rank(status) ==
  CASE status = "NONE" -> 0
    [] status = "PENDING" -> 1
    [] status = "RUNNING" -> 2
    [] status \in {"SUCCEEDED", "FAILED"} -> 3

\* C38: the values written to the status of the workflow never move
\* backwards in the order PENDING < RUNNING < {SUCCEEDED, FAILED}: not to
\* PENDING after RUNNING when the SUCCEEDED record of the root is handled
\* before its dependents are promoted, and not away from SUCCEEDED by a
\* recomputation that read older task statuses.
C38_MetaNeverMovesBack ==
  [][Rank(meta') >= Rank(meta)]_vars

\* C39: a seed for a workflowId whose records exist moves no task
\* backwards: the version does not decrease, remainingDeps is not raised
\* again, and a task that is RUNNING, SUCCEEDED or FAILED is not put back
\* to PENDING or READY (so that no task is executed a second time).
C39_ReseedKeepsProgress ==
  [][\A t \in Tasks :
       tasks[t] # NoItem =>
         /\ tasks'[t].version >= tasks[t].version
         /\ tasks'[t].remainingDeps <= tasks[t].remainingDeps
         /\ tasks[t].status \in {"RUNNING", "SUCCEEDED", "FAILED"} =>
              tasks'[t].status \notin {"PENDING", "READY"}]_vars


\* the handler has returned: its record is handled and every call has ended
HandlerReturned ==
  /\ orch = EmptyBag
  /\ \A rec \in stream : delivered[rec] >= 1
  /\ Notified

\* the status one stream invocation for rec, alone, leaves in the META item
ReactMeta(store, m, rec) ==
  LET statuses(st) == {st[t].status : t \in {u \in Tasks : st[u] # NoItem}}
      query(st) == IF statuses(st) = {} THEN "SKIP" ELSE WorkflowStatus(statuses(st))
      first == MetaWrite(m, query(store))
      after == React(store, rec)
  IN IF Len(after.tasks_to_execute) = 0 THEN first
     ELSE MetaWrite(first, query(after.tasks))

\* a step of a broadcast call
Broadcasts == skipped' # skipped \/ bcast' # bcast

\* C40: a step of a broadcast call changes no TASK item, not the META item
\* and no request; however the calls of an invocation end (sent, send error,
\* scan error, missing configuration), the handler goes on to its return, and
\* the items and the requests are then those of the invocation run without
\* regard to its broadcasts
C40_BroadcastKeepsProtocol ==
  /\ [][/\ Broadcasts =>
             /\ tasks' = tasks /\ meta' = meta
             /\ requests' = requests /\ inbox' = inbox
        /\ HandlerReturned' =>
             \A rec \in stream' :
               LET alone == React(seed.before.tasks, rec) IN
               /\ tasks' = alone.tasks
               /\ requests' = SeqToSet(alone.tasks_to_execute)
               /\ meta' = ReactMeta(seed.before.tasks, seed.before.meta, rec)]_vars
  /\ [](HandlerReturned \/ ENABLED NotifyNext)

\* the handler returned after it sent requests, one of its broadcast calls
\* having failed at the scan and another at a send
C40_Witness ==
  /\ HandlerReturned
  /\ requests # {}
  /\ skipped["scan_error"] >= 1
  /\ \E b \in bcast : \E k \in 1..Len(b.sent) : b.sent[k].result = "error"

=============================================================================
